---- MODULE Spec2Model ----
(***************************************************************************)
(* HTTPInferenceClient (internal/shared/batch/http_inference_client.go):   *)
(* one Generate call on one client, with the caller's context and the     *)
(* remote endpoint as the environment (Spec), and the client's helper      *)
(* functions applied to inputs drawn from bounded sets (PureSpec).         *)
(* A time.Duration is a whole number of ticks, as in Go, with 1000 ticks   *)
(* to the second; the float64 fields BackoffFactor and JitterFraction and  *)
(* the float64 arithmetic of calculateBackoff are exact rationals [n, d]   *)
(* with d > 0.                                                             *)
(***************************************************************************)
EXTENDS Integers, Sequences, FiniteSets, TLC

VARIABLES
    retryConfig,   \* c.retryConfig
    apiKey,        \* c.apiKey
    req,           \* the *InferenceRequest passed to Generate (Nil or a record)
    ctxErr,        \* ctx.Err(): "nil", "Canceled" or "DeadlineExceeded"
    pc,            \* position of the Generate call
    attempt,       \* the loop variable of the retry loop
    lastErr,       \* lastErr of the retry loop
    ret,           \* the (resp, err) pair Generate returned
    attemptCount,  \* generateOnce calls started so far
    ctxAtStart,    \* ctx.Err() when the attempt in flight was started
    history,       \* one entry per finished attempt: outcome, ctx.Err() then, result
    backoffs,      \* the attempt indices handed to calculateBackoff, one per wait
    timerFired,    \* the time.After channel of the current wait is ready
    variant,       \* which Generate runs: "handrolled" (http_inference_client.go)
                   \* or "resty" (the resty-backed client)
    fnCall,        \* PureSpec: the helper function called and its arguments
    fnResult,      \* PureSpec: whether it has returned, and the value returned
    bucket,        \* StoreSpec: the objects of the S3 bucket, by key
    prefix,        \* StoreSpec: c.prefix of the files-store Client
    stores,        \* StoreSpec: the Store calls, by caller
    puts           \* StoreSpec: the PutObject requests issued, in order

vars == <<retryConfig, apiKey, req, ctxErr, pc, attempt, lastErr, ret,
          attemptCount, ctxAtStart, history, backoffs, timerFired,
          variant, fnCall, fnResult, bucket, prefix, stores, puts>>

\* no Store call is in progress and the files store is not looked at
StoreIdle ==
    /\ bucket = <<>>
    /\ prefix = ""
    /\ stores = <<>>
    /\ puts = <<>>

(* ------------------------------ bounds -------------------------------- *)

\* MaxRetries is drawn from -1 .. MaxRetriesBound
MaxRetriesBound == 3

\* calculateBackoff is applied to attempt indices 0 .. MaxAttemptIndex
MaxAttemptIndex == 4

\* rand.Float64() is drawn from { k / RandSteps : k \in 0 .. RandSteps - 1 }
RandSteps == 4

\* concurrent calls share a client with MaxRetries in 0 .. ConcurrentRetriesBound
ConcurrentRetriesBound == 2
\* the bits of an int64, scaled down, and the longest content a reader holds
Int64Width == 4
MaxContentLen == 3

(* ------------------------------ values -------------------------------- *)

Nil == [nil |-> TRUE]

ErrCategoryRateLimit == "RATE_LIMIT"
ErrCategoryServer == "SERVER_ERROR"
ErrCategoryInvalidReq == "INVALID_REQ"
ErrCategoryAuth == "AUTH_ERROR"
ErrCategoryUnknown == "UNKNOWN"

CtxErrs == {"nil", "Canceled", "DeadlineExceeded"}

\* Message of an InferenceError: the format text and, for "HTTP %d: %s", its arguments
Msg(text) == [text |-> text, code |-> 0, detail |-> ""]
HTTPMsg(code, detail) == [text |-> "HTTP %d: %s", code |-> code, detail |-> detail]

InferenceError(category, message, rawError) ==
    [Category |-> category, Message |-> message, RawError |-> rawError]

\* requests: RequestID and the key set of Params
RequestIDs == {"", "req-1"}
ParamKeys == {"messages", "prompt"}
Requests == [RequestID : RequestIDs, Params : SUBSET ParamKeys]
APIKeys == {"", "sk-test"}

\* a float64 held exactly, in lowest terms
Rat(n, d) == [n |-> n, d |-> d]

\* the retry fields a caller may put in HTTPInferenceClientConfig; 0 is "not set"
InitialBackoffs == {0, 1, 3, 1500, -1000}
MaxBackoffs == {0, 10, 2000}
BackoffFactors == {Rat(0, 1), Rat(1, 2), Rat(1, 1), Rat(3, 2)}
JitterFractions == {Rat(0, 1), Rat(1, 2), Rat(1, 1), Rat(3, 2)}

HTTPInferenceClientConfig ==
    [APIKey : APIKeys, MaxRetries : -1 .. MaxRetriesBound,
     InitialBackoff : InitialBackoffs, MaxBackoff : MaxBackoffs,
     BackoffFactor : BackoffFactors, JitterFraction : JitterFractions]

\* the zero value of HTTPInferenceClientConfig
ZeroConfig ==
    [APIKey |-> "", MaxRetries |-> 0, InitialBackoff |-> 0, MaxBackoff |-> 0,
     BackoffFactor |-> Rat(0, 1), JitterFraction |-> Rat(0, 1)]

\* the status codes a response may carry: three digits
StatusCodes == 100 .. 999

\* keys a caller may put into Params
EndpointParamKeys == ParamKeys \cup {"model", "max_tokens"}

\* response bodies the endpoint may send
BodyJSON == "{\"id\":\"success\"}"
BodyEnvelope == "{\"error\":{\"code\":1,\"message\":\"Rate limit exceeded\"}}"
BodyEnvelopeNoMessage == "{\"error\":{\"code\":1}}"
BodyEnvelopeStringCode == "{\"error\":{\"code\":\"rate_limit\",\"message\":\"Too many requests\"}}"
BodyText == "Service temporarily unavailable"
BodyEmpty == ""

\* what one attempt meets: a failure before or in the transport, or a completed response
Outcomes ==
    {[kind |-> k, status |-> 0, body |-> BodyEmpty] :
        k \in {"marshalErr", "newRequestErr", "doErr", "readErr"}}
    \cup {[kind |-> "response", status |-> 200, body |-> b] :
            b \in {BodyJSON, BodyEmpty, BodyText}}
    \cup {[kind |-> "response", status |-> s, body |-> BodyEnvelope] :
            s \in {400, 401, 429, 500}}
    \cup {[kind |-> "response", status |-> 403, body |-> BodyEnvelopeNoMessage],
          [kind |-> "response", status |-> 404, body |-> BodyText],
          [kind |-> "response", status |-> 503, body |-> BodyText],
          [kind |-> "response", status |-> 201, body |-> BodyJSON],
          [kind |-> "response", status |-> 301, body |-> BodyEmpty]}

(* --------------------------- pure functions --------------------------- *)

\* InferenceError.IsRetryable
IsRetryable(err) ==
    err.Category \in {ErrCategoryRateLimit, ErrCategoryServer}

\* the prompt key is looked for first
determineEndpoint_PromptFirst(params) ==
    IF "prompt" \in params THEN "/v1/completions"
    ELSE "/v1/chat/completions"

determineEndpoint(params) ==
    IF "messages" \in params THEN "/v1/chat/completions"
    ELSE IF "prompt" \in params THEN "/v1/completions"
    ELSE "/v1/chat/completions"

\* the default branch does not look at the range of the code
mapStatusCodeToCategory_NoRange(statusCode) ==
    CASE statusCode = 400 -> ErrCategoryInvalidReq
      [] statusCode \in {401, 403} -> ErrCategoryAuth
      [] statusCode = 429 -> ErrCategoryRateLimit
      [] statusCode \in {500, 502, 503, 504} -> ErrCategoryServer
      [] OTHER -> ErrCategoryUnknown

mapStatusCodeToCategory(statusCode) ==
    CASE statusCode = 400 -> ErrCategoryInvalidReq
      [] statusCode \in {401, 403} -> ErrCategoryAuth
      [] statusCode = 429 -> ErrCategoryRateLimit
      [] statusCode \in {500, 502, 503, 504} -> ErrCategoryServer
      [] OTHER -> IF statusCode >= 500 THEN ErrCategoryServer ELSE ErrCategoryUnknown

\* json.Unmarshal of a body into the error envelope: ok, and error.message
unmarshalErrorResp(body) ==
    CASE body = BodyEnvelope -> [ok |-> TRUE, message |-> "Rate limit exceeded"]
      [] body = BodyEnvelopeNoMessage -> [ok |-> TRUE, message |-> ""]
      [] body = BodyJSON -> [ok |-> TRUE, message |-> ""]
      [] body = BodyEnvelopeStringCode -> [ok |-> FALSE, message |-> "Too many requests"]
      [] OTHER -> [ok |-> FALSE, message |-> ""]

\* json.Unmarshal of a body into interface{}: ok, and the value
unmarshalRawData(body) ==
    CASE body \in {BodyJSON, BodyEnvelope, BodyEnvelopeNoMessage, BodyEnvelopeStringCode} ->
            [ok |-> TRUE, value |-> [json |-> body]]
      [] OTHER -> [ok |-> FALSE, value |-> Nil]

\* the body text is the message whatever the body holds
handleErrorResponse_RawBody(statusCode, body) ==
    InferenceError(mapStatusCodeToCategory(statusCode),
                   HTTPMsg(statusCode, body), "status code and body")

handleErrorResponse(statusCode, body) ==
    LET errorResp == unmarshalErrorResp(body)
        message == IF errorResp.ok /\ errorResp.message # ""
                   THEN errorResp.message ELSE body
    IN  InferenceError(mapStatusCodeToCategory(statusCode),
                       HTTPMsg(statusCode, message), "status code and body")

\* the two context errors are told apart the wrong way round
doError_Swapped(ctxE) ==
    IF ctxE = "DeadlineExceeded"
    THEN InferenceError(ErrCategoryUnknown, Msg("request cancelled"), "err")
    ELSE IF ctxE = "Canceled"
    THEN InferenceError(ErrCategoryServer, Msg("request timeout"), "err")
    ELSE InferenceError(ErrCategoryServer, Msg("failed to execute request"), "err")

\* the error generateOnce makes of a failed c.client.Do, by ctx.Err() at that time
doError(ctxE) ==
    IF ctxE = "Canceled"
    THEN InferenceError(ErrCategoryUnknown, Msg("request cancelled"), "err")
    ELSE IF ctxE = "DeadlineExceeded"
    THEN InferenceError(ErrCategoryServer, Msg("request timeout"), "err")
    ELSE InferenceError(ErrCategoryServer, Msg("failed to execute request"), "err")

\* the Authorization header is set whether or not a key is configured
requestHeaders_AlwaysAuth(key, r) ==
    {<<"Content-Type", "application/json">>, <<"Authorization", "Bearer " \o key>>}
    \cup (IF r.RequestID # "" THEN {<<"X-Request-ID", r.RequestID>>} ELSE {})

\* the headers generateOnce sets on the outgoing request
requestHeaders(key, r) ==
    {<<"Content-Type", "application/json">>}
    \cup (IF key # "" THEN {<<"Authorization", "Bearer " \o key>>} ELSE {})
    \cup (IF r.RequestID # "" THEN {<<"X-Request-ID", r.RequestID>>} ELSE {})

\* every 2xx status counts as success
statusOK_Any2xx(statusCode) == statusCode \in 200 .. 299

\* httpResp.StatusCode != http.StatusOK is the failure test
statusOK(statusCode) == statusCode = 200

\* json.Marshal(req.Params) failed
marshalError ==
    InferenceError(ErrCategoryInvalidReq, Msg("failed to marshal request"), "err")

\* the failed construction is reported as a server error
newRequestError_Server ==
    InferenceError(ErrCategoryServer, Msg("failed to create HTTP request"), "err")

\* http.NewRequestWithContext failed
newRequestError ==
    InferenceError(ErrCategoryUnknown, Msg("failed to create HTTP request"), "err")

\* the id is taken from the response body
decodeResponse_IDFromBody(r, body) ==
    LET parsed == unmarshalRawData(body)
    IN  [resp |-> [RequestID |-> IF parsed.ok THEN "success" ELSE "",
                   Response |-> body,
                   RawData |-> IF parsed.ok THEN parsed.value ELSE Nil],
         err |-> Nil]

\* a body that does not parse fails the attempt
decodeResponse_Strict(r, body) ==
    LET parsed == unmarshalRawData(body)
    IN  IF parsed.ok
        THEN [resp |-> [RequestID |-> r.RequestID, Response |-> body,
                        RawData |-> parsed.value],
              err |-> Nil]
        ELSE [resp |-> Nil,
              err |-> InferenceError(ErrCategoryServer,
                                     Msg("failed to parse response"), "err")]

\* the body of a 200 response: RawData is left nil when json.Unmarshal fails
decodeResponse(r, body) ==
    LET parsed == unmarshalRawData(body)
    IN  [resp |-> [RequestID |-> r.RequestID, Response |-> body,
                   RawData |-> IF parsed.ok THEN parsed.value ELSE Nil],
         err |-> Nil]

\* one attempt: r is the request, o what the attempt meets, ctxE is ctx.Err()
\* when c.client.Do returns. sent is the request handed to c.client.Do, if any.
generateOnce(key, r, o, ctxE) ==
    LET endpoint == determineEndpoint(r.Params)
        httpReq == [method |-> "POST", path |-> endpoint,
                    headers |-> requestHeaders(key, r), body |-> r.Params]
    IN  IF o.kind = "marshalErr"
        THEN [resp |-> Nil, sent |-> Nil, err |-> marshalError]
        ELSE IF o.kind = "newRequestErr"
        THEN [resp |-> Nil, sent |-> Nil, err |-> newRequestError]
        ELSE IF o.kind = "doErr"
        THEN [resp |-> Nil, sent |-> httpReq, err |-> doError(ctxE)]
        ELSE IF o.kind = "readErr"
        THEN [resp |-> Nil, sent |-> httpReq,
              err |-> InferenceError(ErrCategoryServer,
                                     Msg("failed to read response body"), "err")]
        ELSE IF ~statusOK(o.status)
        THEN [resp |-> Nil, sent |-> httpReq,
              err |-> handleErrorResponse(o.status, o.body)]
        ELSE LET decoded == decodeResponse(r, o.body)
             IN  [resp |-> decoded.resp, sent |-> httpReq, err |-> decoded.err]

(* --------------------------- construction ----------------------------- *)

\* 1 * time.Second and 60 * time.Second, in ticks
DefaultInitialBackoff == 1000
DefaultMaxBackoff == 60000
DefaultBackoffFactor == Rat(2, 1)
DefaultJitterFraction == Rat(1, 10)

\* the defaults are applied whatever MaxRetries is
applyRetryDefaults_Always(rc) ==
    [MaxRetries |-> rc.MaxRetries,
     InitialBackoff |-> IF rc.InitialBackoff = 0 THEN DefaultInitialBackoff
                        ELSE rc.InitialBackoff,
     MaxBackoff |-> IF rc.MaxBackoff = 0 THEN DefaultMaxBackoff ELSE rc.MaxBackoff,
     BackoffFactor |-> IF rc.BackoffFactor.n = 0 THEN DefaultBackoffFactor
                       ELSE rc.BackoffFactor,
     JitterFraction |-> IF rc.JitterFraction.n = 0 THEN DefaultJitterFraction
                        ELSE rc.JitterFraction]

\* if retryConfig.MaxRetries > 0 { if retryConfig.InitialBackoff == 0 { ... } ... }
applyRetryDefaults(rc) ==
    IF rc.MaxRetries > 0
    THEN [MaxRetries |-> rc.MaxRetries,
          InitialBackoff |-> IF rc.InitialBackoff = 0 THEN DefaultInitialBackoff
                             ELSE rc.InitialBackoff,
          MaxBackoff |-> IF rc.MaxBackoff = 0 THEN DefaultMaxBackoff ELSE rc.MaxBackoff,
          BackoffFactor |-> IF rc.BackoffFactor.n = 0 THEN DefaultBackoffFactor
                            ELSE rc.BackoffFactor,
          JitterFraction |-> IF rc.JitterFraction.n = 0 THEN DefaultJitterFraction
                             ELSE rc.JitterFraction]
    ELSE rc

\* the fields of the client Generate reads: apiKey and retryConfig
NewHTTPInferenceClient(config) ==
    [apiKey |-> config.APIKey,
     retryConfig |-> applyRetryDefaults(
         [MaxRetries |-> config.MaxRetries,
          InitialBackoff |-> config.InitialBackoff,
          MaxBackoff |-> config.MaxBackoff,
          BackoffFactor |-> config.BackoffFactor,
          JitterFraction |-> config.JitterFraction])]

(* ------------------------------ backoff ------------------------------- *)

RECURSIVE Pow(_, _)
\* math.Pow for a whole exponent e >= 0
Pow(b, e) == IF e = 0 THEN 1 ELSE b * Pow(b, e - 1)

\* min(InitialBackoff * BackoffFactor^attempt, MaxBackoff) as a Rat
cappedBackoff(cfg, a) ==
    LET n == cfg.InitialBackoff * Pow(cfg.BackoffFactor.n, a)
        d == Pow(cfg.BackoffFactor.d, a)
    IN  IF n > cfg.MaxBackoff * d THEN Rat(cfg.MaxBackoff, 1) ELSE Rat(n, d)

\* backoff + backoff * JitterFraction * (rand.Float64()*2 - 1), rand.Float64() = k / RandSteps
jitteredBackoff(cfg, a, k) ==
    LET b == cappedBackoff(cfg, a)
        j == cfg.JitterFraction
    IN  Rat(b.n * j.d * RandSteps + b.n * j.n * (2 * k - RandSteps),
            b.d * j.d * RandSteps)

\* if backoff < 0 { backoff = float64(c.retryConfig.InitialBackoff) }
clampNegative(cfg, x) == IF x.n < 0 THEN Rat(cfg.InitialBackoff, 1) ELSE x

\* the conversion rounds up to the next whole unit
toDuration_Ceil(x) == IF x.n >= 0 THEN (x.n + x.d - 1) \div x.d ELSE -((-x.n) \div x.d)

\* time.Duration(backoff): the fraction is cut off, toward zero
toDuration(x) == IF x.n >= 0 THEN x.n \div x.d ELSE -((-x.n) \div x.d)

\* the cap is left out
calculateBackoff_NoCap(cfg, a, k) ==
    LET j == cfg.JitterFraction
        n == cfg.InitialBackoff * Pow(cfg.BackoffFactor.n, a)
        d == Pow(cfg.BackoffFactor.d, a)
    IN  toDuration(clampNegative(cfg,
            Rat(n * j.d * RandSteps + n * j.n * (2 * k - RandSteps), d * j.d * RandSteps)))

\* calculateBackoff(attempt) with rand.Float64() = k / RandSteps
calculateBackoff(cfg, a, k) == toDuration(clampNegative(cfg, jitteredBackoff(cfg, a, k)))

(* ------------------- the decisions of Generate ------------------------ *)

\* the nil request is reported in the catch-all category
nilRequestError_Unknown ==
    InferenceError(ErrCategoryUnknown, Msg("request cannot be nil"), "nil")

\* if req == nil { return nil, &InferenceError{...} }
nilRequestError ==
    InferenceError(ErrCategoryInvalidReq, Msg("request cannot be nil"), "nil")

\* if c.retryConfig.MaxRetries == 0
retryDisabled(cfg) == cfg.MaxRetries = 0

\* the response is dropped on the way out
returnOnce_DropsResponse(r) == [resp |-> Nil, err |-> r.err]

\* return c.generateOnce(ctx, req)
returnOnce(r) == [resp |-> r.resp, err |-> r.err]

\* the loop bound written with < for <=
loopCondition_Strict(cfg, a) == a < cfg.MaxRetries

\* for attempt := 0; attempt <= c.retryConfig.MaxRetries; attempt++
loopCondition(cfg, a) == a <= cfg.MaxRetries

\* the loop variable is never advanced
nextAttempt_Stuck(a) == a

nextAttempt(a) == a + 1

\* the decision is made again from the status code in the message
nonRetryable_ByStatusCode(err) == ~(err.Message.code = 429 \/ err.Message.code >= 500)

\* only a bad request ends the loop
nonRetryable_OnlyInvalidReq(err) == err.Category = ErrCategoryInvalidReq

\* if !err.IsRetryable() { return nil, err }
nonRetryable(err) == ~IsRetryable(err)

\* the exhaustion check fires one attempt early
retriesExhausted_OneEarly(cfg, a) == a + 1 >= cfg.MaxRetries

\* if attempt >= c.retryConfig.MaxRetries { break }
retriesExhausted(cfg, a) == a >= cfg.MaxRetries

\* only an explicit cancel is looked for
contextDone_OnlyCanceled(ctxE) == ctxE = "Canceled"

\* if ctx.Err() != nil
contextDone(ctxE) == ctxE # "nil"

\* the error is dropped on the way out
contextDoneReturn_Nothing(err) == [resp |-> Nil, err |-> Nil]

\* ... { return nil, err }
contextDoneReturn(err) == [resp |-> Nil, err |-> err]

\* the cancellation is reported in a retryable category
backoffCancelledError_Server(ctxE) ==
    InferenceError(ErrCategoryServer, Msg("request cancelled during retry"), ctxE)

\* case <-ctx.Done(): return nil, &InferenceError{...}
backoffCancelledError(ctxE) ==
    InferenceError(ErrCategoryUnknown, Msg("request cancelled during retry"), ctxE)

\* c.client.Do on a context that is already done fails without a round trip
Feasible(o) ==
    ctxAtStart # "nil" => o.kind \in {"marshalErr", "newRequestErr", "doErr"}

(* ------------------------------ actions ------------------------------- *)

NoResult == [resp |-> Nil, err |-> Nil]

NoCall == [fn |-> "none"]
NotReturned == [returned |-> FALSE]
Returned(v) == [returned |-> TRUE, value |-> v]

\* the clients whose Generate is followed: the backoff fields are left unset
GenerateConfigs ==
    {config \in HTTPInferenceClientConfig :
        /\ config.InitialBackoff = 0 /\ config.MaxBackoff = 0
        /\ config.BackoffFactor.n = 0 /\ config.JitterFraction.n = 0}

Init ==
    /\ \E config \in GenerateConfigs :
        /\ retryConfig = NewHTTPInferenceClient(config).retryConfig
        /\ apiKey = NewHTTPInferenceClient(config).apiKey
    /\ variant = "handrolled"
    /\ StoreIdle
    /\ fnCall = NoCall
    /\ fnResult = NotReturned
    /\ req \in Requests \cup {Nil}
    /\ ctxErr \in CtxErrs
    /\ pc = "entry"
    /\ attempt = 0
    /\ lastErr = Nil
    /\ ret = NoResult
    /\ attemptCount = 0
    /\ ctxAtStart = "nil"
    /\ history = <<>>
    /\ backoffs = <<>>
    /\ timerFired = FALSE

Return(r) ==
    /\ pc' = "done"
    /\ ret' = r

\* the head of the retry loop with loop variable a and last error e
LoopHead(a, e) ==
    IF loopCondition(retryConfig, a)
    THEN /\ pc' = "attempting"
         /\ attemptCount' = attemptCount + 1
         /\ ctxAtStart' = ctxErr
         /\ ret' = ret
    ELSE /\ Return([resp |-> Nil, err |-> e])
         /\ UNCHANGED <<attemptCount, ctxAtStart>>

\* Generate up to its first call of generateOnce
GenerateEnter ==
    /\ pc = "entry"
    /\ IF req = Nil
       THEN /\ Return([resp |-> Nil, err |-> nilRequestError])
            /\ UNCHANGED <<attemptCount, ctxAtStart>>
       ELSE IF retryDisabled(retryConfig)
       THEN /\ pc' = "once"
            /\ attemptCount' = attemptCount + 1
            /\ ctxAtStart' = ctxErr
            /\ ret' = ret
       ELSE LoopHead(0, Nil)
    /\ UNCHANGED <<bucket, prefix, stores, puts, variant, fnCall, fnResult, retryConfig, apiKey, req, ctxErr, attempt, lastErr, history,
                   backoffs, timerFired>>

\* the single attempt of a client without retry returns
OnceReturn ==
    /\ pc = "once"
    /\ \E o \in Outcomes :
        /\ Feasible(o)
        /\ LET r == generateOnce(apiKey, req, o, ctxErr)
           IN  /\ history' = Append(history, [outcome |-> o, ctx |-> ctxErr, result |-> r])
               /\ Return(returnOnce(r))
    /\ UNCHANGED <<bucket, prefix, stores, puts, variant, fnCall, fnResult, retryConfig, apiKey, req, ctxErr, attempt, lastErr, attemptCount,
                   ctxAtStart, backoffs, timerFired>>

\* an attempt of the retry loop returns: Generate up to the check of ctx.Err()
AttemptReturn ==
    /\ pc = "attempting"
    /\ \E o \in Outcomes :
        /\ Feasible(o)
        /\ LET r == generateOnce(apiKey, req, o, ctxErr)
           IN  /\ history' = Append(history, [outcome |-> o, ctx |-> ctxErr, result |-> r])
               /\ IF r.err = Nil
                  THEN /\ Return([resp |-> r.resp, err |-> Nil])
                       /\ lastErr' = lastErr
                  ELSE /\ lastErr' = r.err
                       /\ IF nonRetryable(r.err)
                          THEN Return([resp |-> Nil, err |-> r.err])
                          ELSE IF retriesExhausted(retryConfig, attempt)
                          THEN Return([resp |-> Nil, err |-> lastErr'])
                          ELSE /\ pc' = "ctxCheck"
                               /\ ret' = ret
    /\ UNCHANGED <<bucket, prefix, stores, puts, variant, fnCall, fnResult, retryConfig, apiKey, req, ctxErr, attempt, attemptCount,
                   ctxAtStart, backoffs, timerFired>>

\* the check of ctx.Err() before the wait; then the backoff is computed and the
\* select statement starts its timer
ContextCheck ==
    /\ pc = "ctxCheck"
    /\ IF contextDone(ctxErr)
       THEN /\ Return(contextDoneReturn(lastErr))
            /\ UNCHANGED <<backoffs, timerFired>>
       ELSE /\ backoffs' = Append(backoffs, attempt)
            /\ timerFired' = FALSE
            /\ pc' = "select"
            /\ ret' = ret
    /\ UNCHANGED <<bucket, prefix, stores, puts, variant, fnCall, fnResult, retryConfig, apiKey, req, ctxErr, attempt, lastErr, attemptCount,
                   ctxAtStart, history>>

\* the backoff elapses before the select statement has looked at its channels
TimerFires ==
    /\ pc = "select"
    /\ ~timerFired
    /\ timerFired' = TRUE
    /\ UNCHANGED <<bucket, prefix, stores, puts, variant, fnCall, fnResult, retryConfig, apiKey, req, ctxErr, pc, attempt, lastErr, ret,
                   attemptCount, ctxAtStart, history, backoffs>>

\* the wait is entered again in place of the next attempt
ContinueLoop_WaitsAgain ==
    /\ pc' = "blocked"
    /\ UNCHANGED <<attempt, attemptCount, ctxAtStart, ret>>
    /\ UNCHANGED <<bucket, prefix, stores, puts, variant, fnCall, fnResult, retryConfig, apiKey, req, lastErr, history, backoffs>>

\* the request loses its id before the next attempt
ContinueLoop_DropsRequestID ==
    /\ attempt' = nextAttempt(attempt)
    /\ LoopHead(attempt', lastErr)
    /\ req' = [req EXCEPT !.RequestID = ""]
    /\ UNCHANGED <<bucket, prefix, stores, puts, variant, fnCall, fnResult, retryConfig, apiKey, lastErr, history, backoffs>>

\* case <-time.After(backoff): the next iteration of the loop starts
ContinueLoop ==
    /\ attempt' = nextAttempt(attempt)
    /\ LoopHead(attempt', lastErr)
    /\ UNCHANGED <<bucket, prefix, stores, puts, variant, fnCall, fnResult, retryConfig, apiKey, req, lastErr, history, backoffs>>

\* case <-ctx.Done(), with e the value of ctx.Err()
ReturnCancelled(e) ==
    /\ Return([resp |-> Nil, err |-> backoffCancelledError(e)])
    /\ UNCHANGED <<bucket, prefix, stores, puts, variant, fnCall, fnResult, retryConfig, apiKey, req, attempt, lastErr, attemptCount,
                   ctxAtStart, history, backoffs>>

\* select finds the timer channel ready (if ctx.Done() is ready as well, select
\* takes either case)
SelectTimer ==
    /\ pc = "select"
    /\ timerFired
    /\ ContinueLoop
    /\ UNCHANGED <<ctxErr, timerFired>>

\* select finds ctx.Done() ready
SelectDone ==
    /\ pc = "select"
    /\ ctxErr # "nil"
    /\ ReturnCancelled(ctxErr)
    /\ UNCHANGED <<ctxErr, timerFired>>

\* the next attempt is started while the wait goes on
SelectBlock_StartsAttempt ==
    /\ pc = "select"
    /\ ~timerFired
    /\ ctxErr = "nil"
    /\ pc' = "blocked"
    /\ attemptCount' = attemptCount + 1
    /\ UNCHANGED <<bucket, prefix, stores, puts, variant, fnCall, fnResult, retryConfig, apiKey, req, ctxErr, attempt,
                   lastErr, ret, ctxAtStart, history, backoffs, timerFired>>

\* select finds no channel ready and blocks
SelectBlock ==
    /\ pc = "select"
    /\ ~timerFired
    /\ ctxErr = "nil"
    /\ pc' = "blocked"
    /\ UNCHANGED <<bucket, prefix, stores, puts, variant, fnCall, fnResult, retryConfig, apiKey, req, ctxErr, attempt, lastErr, ret,
                   attemptCount, ctxAtStart, history, backoffs, timerFired>>

\* the backoff elapses while select is blocked: the timer case is taken
BlockedTimerFires ==
    /\ pc = "blocked"
    /\ timerFired' = TRUE
    /\ ContinueLoop
    /\ UNCHANGED ctxErr

\* the end of the context ends the wait and the loop goes on
BlockedContextDone_Continues ==
    /\ pc = "blocked"
    /\ \E e \in CtxErrs \ {"nil"} : ctxErr' = e
    /\ ContinueLoop
    /\ UNCHANGED timerFired

\* the context is cancelled or expires while select is blocked: the ctx.Done()
\* case is taken
BlockedContextDone ==
    /\ pc = "blocked"
    /\ \E e \in CtxErrs \ {"nil"} :
        /\ ctxErr' = e
        /\ ReturnCancelled(e)
    /\ UNCHANGED timerFired

\* the caller cancels the context
Cancel ==
    /\ pc \notin {"done", "blocked", "restyBlocked"}
    /\ ctxErr = "nil"
    /\ ctxErr' = "Canceled"
    /\ UNCHANGED <<bucket, prefix, stores, puts, variant, fnCall, fnResult, retryConfig, apiKey, req, pc, attempt, lastErr, ret, attemptCount,
                   ctxAtStart, history, backoffs, timerFired>>

\* the deadline of the context passes
DeadlineExceeded ==
    /\ pc \notin {"done", "blocked", "restyBlocked"}
    /\ ctxErr = "nil"
    /\ ctxErr' = "DeadlineExceeded"
    /\ UNCHANGED <<bucket, prefix, stores, puts, variant, fnCall, fnResult, retryConfig, apiKey, req, pc, attempt, lastErr, ret, attemptCount,
                   ctxAtStart, history, backoffs, timerFired>>

Next ==
    \/ GenerateEnter
    \/ OnceReturn
    \/ AttemptReturn
    \/ ContextCheck
    \/ TimerFires
    \/ SelectTimer
    \/ SelectDone
    \/ SelectBlock
    \/ BlockedTimerFires
    \/ BlockedContextDone
    \/ Cancel
    \/ DeadlineExceeded

Spec == Init /\ [][Next]_vars

\* the steps of the goroutine that runs Generate, the expiry of the backoff
\* timer included; the end of the context is the caller's and may never come
GenerateStep ==
    \/ GenerateEnter
    \/ OnceReturn
    \/ AttemptReturn
    \/ ContextCheck
    \/ TimerFires
    \/ SelectTimer
    \/ SelectDone
    \/ SelectBlock
    \/ BlockedTimerFires

\* every attempt terminates (http.Client.Timeout bounds it), every timer
\* expires, and the goroutine is scheduled
FairSpec == Init /\ [][Next]_vars /\ WF_vars(GenerateStep)

(* ------------- the helper functions applied on their own -------------- *)

\* the retry configurations of clients whose Generate can reach calculateBackoff
BackoffConfigs ==
    {NewHTTPInferenceClient(config).retryConfig :
        config \in {c \in HTTPInferenceClientConfig : c.MaxRetries > 0 /\ c.APIKey = ""}}

\* bodies a failure response may carry
ErrorBodies ==
    {BodyEnvelope, BodyEnvelopeNoMessage, BodyEnvelopeStringCode, BodyJSON, BodyText, BodyEmpty}

PureCalls ==
    {[fn |-> "mapStatusCodeToCategory", statusCode |-> c] : c \in StatusCodes}
    \cup {[fn |-> "handleErrorResponse", statusCode |-> c, body |-> b] :
            c \in StatusCodes \ {200}, b \in ErrorBodies}
    \cup {[fn |-> "determineEndpoint", params |-> p] : p \in SUBSET EndpointParamKeys}
    \cup {[fn |-> "NewHTTPInferenceClient", config |-> c] : c \in HTTPInferenceClientConfig}
    \cup {[fn |-> "calculateBackoff", cfg |-> rc, attempt |-> a, k |-> k] :
            rc \in BackoffConfigs, a \in 0 .. MaxAttemptIndex, k \in 0 .. RandSteps - 1}

\* no Generate call is in progress
PureInit ==
    /\ variant = "handrolled"
    /\ StoreIdle
    /\ fnCall \in PureCalls
    /\ fnResult = NotReturned
    /\ retryConfig = NewHTTPInferenceClient(ZeroConfig).retryConfig
    /\ apiKey = NewHTTPInferenceClient(ZeroConfig).apiKey
    /\ req = Nil
    /\ ctxErr = "nil"
    /\ pc = "entry"
    /\ attempt = 0
    /\ lastErr = Nil
    /\ ret = NoResult
    /\ attemptCount = 0
    /\ ctxAtStart = "nil"
    /\ history = <<>>
    /\ backoffs = <<>>
    /\ timerFired = FALSE

\* the helper fn is called, has not returned yet, and returns v
Call(fn, v) ==
    /\ fnCall.fn = fn
    /\ ~fnResult.returned
    /\ fnResult' = Returned(v)

CallMapStatusCodeToCategory ==
    /\ Call("mapStatusCodeToCategory", mapStatusCodeToCategory(fnCall.statusCode))
    /\ UNCHANGED <<bucket, prefix, stores, puts, variant, fnCall, retryConfig, apiKey, req, ctxErr, pc, attempt, lastErr, ret,
                   attemptCount, ctxAtStart, history, backoffs, timerFired>>

CallDetermineEndpoint ==
    /\ Call("determineEndpoint", determineEndpoint(fnCall.params))
    /\ UNCHANGED <<bucket, prefix, stores, puts, variant, fnCall, retryConfig, apiKey, req, ctxErr, pc, attempt, lastErr, ret,
                   attemptCount, ctxAtStart, history, backoffs, timerFired>>

CallNewHTTPInferenceClient ==
    /\ Call("NewHTTPInferenceClient", NewHTTPInferenceClient(fnCall.config))
    /\ UNCHANGED <<bucket, prefix, stores, puts, variant, fnCall, retryConfig, apiKey, req, ctxErr, pc, attempt, lastErr, ret,
                   attemptCount, ctxAtStart, history, backoffs, timerFired>>

CallCalculateBackoff ==
    /\ Call("calculateBackoff", calculateBackoff(fnCall.cfg, fnCall.attempt, fnCall.k))
    /\ UNCHANGED <<bucket, prefix, stores, puts, variant, fnCall, retryConfig, apiKey, req, ctxErr, pc, attempt, lastErr, ret,
                   attemptCount, ctxAtStart, history, backoffs, timerFired>>

CallHandleErrorResponse ==
    /\ Call("handleErrorResponse", handleErrorResponse(fnCall.statusCode, fnCall.body))
    /\ UNCHANGED <<bucket, prefix, stores, puts, variant, fnCall, retryConfig, apiKey, req, ctxErr, pc, attempt, lastErr, ret,
                   attemptCount, ctxAtStart, history, backoffs, timerFired>>

PureNext ==
    \/ CallMapStatusCodeToCategory
    \/ CallHandleErrorResponse
    \/ CallDetermineEndpoint
    \/ CallNewHTTPInferenceClient
    \/ CallCalculateBackoff

PureSpec == PureInit /\ [][PureNext]_vars

(* ------------------- the resty-backed client -------------------------- *)
(* Generate of the resty-backed client hands the request to resty, whose   *)
(* retry loop runs the attempts: attempt holds resty's Request.Attempt,    *)
(* lastErr the error Post returned, backoffs the indices customRetryAfter  *)
(* passed to calculateBackoff.                                             *)

\* what an attempt made by resty meets: a failed transport or a completed response
RestyOutcomes == {o \in Outcomes : o.kind \in {"doErr", "response"}}

\* every status from 400 up is retried
restyRetryCondition_ClientErrors(o) ==
    \/ o.kind = "doErr"
    \/ o.status >= 400

\* AddRetryCondition: retry on an error, on 429 and on every status from 500 up
restyRetryCondition(o) ==
    \/ o.kind = "doErr"
    \/ o.status = 429
    \/ o.status >= 500

\* SetRetryCount and the hooks are installed only if retryConfig.MaxRetries > 0
restyRetryCount(cfg) == IF cfg.MaxRetries > 0 THEN cfg.MaxRetries ELSE 0

\* resty's one-based count is handed on as it is
customRetryAfter_OneBased(requestAttempt) == requestAttempt

\* attempt := resp.Request.Attempt - 1: the index customRetryAfter gives calculateBackoff
customRetryAfter(requestAttempt) == requestAttempt - 1

\* handleRequestError: the error made of a failed Post, by ctx.Err() at that time
handleRequestError(ctxE) ==
    IF ctxE = "Canceled"
    THEN InferenceError(ErrCategoryUnknown, Msg("request cancelled"), "err")
    ELSE IF ctxE = "DeadlineExceeded"
    THEN InferenceError(ErrCategoryServer, Msg("request timeout"), "err")
    ELSE InferenceError(ErrCategoryServer, Msg("failed to execute request"), "err")

\* the response of a successful Post: an empty body is not parsed
restyDecodeResponse(r, body) ==
    LET parsed == IF body = BodyEmpty THEN [ok |-> FALSE, value |-> Nil]
                  ELSE unmarshalRawData(body)
    IN  [RequestID |-> r.RequestID, Response |-> body,
         RawData |-> IF parsed.ok THEN parsed.value ELSE Nil]

\* Generate after restyReq.Post returned: o is the outcome of the last attempt,
\* postErr whether Post returned an error
restyGenerateReturn(r, o, postErr, ctxE) ==
    IF postErr
    THEN [resp |-> Nil, err |-> handleRequestError(ctxE)]
    ELSE IF o.status # 200
    THEN [resp |-> Nil, err |-> handleErrorResponse(o.status, o.body)]
    ELSE [resp |-> restyDecodeResponse(r, o.body), err |-> Nil]

PostOK == [post |-> "ok"]
PostErr == [post |-> "err"]

RestyInit ==
    /\ \E config \in GenerateConfigs :
        /\ retryConfig = NewHTTPInferenceClient(config).retryConfig
        /\ apiKey = NewHTTPInferenceClient(config).apiKey
    /\ variant = "resty"
    /\ StoreIdle
    /\ fnCall = NoCall
    /\ fnResult = NotReturned
    /\ req \in Requests \cup {Nil}
    /\ ctxErr \in CtxErrs
    /\ pc = "restyEntry"
    /\ attempt = 0
    /\ lastErr = Nil
    /\ ret = NoResult
    /\ attemptCount = 0
    /\ ctxAtStart = "nil"
    /\ history = <<>>
    /\ backoffs = <<>>
    /\ timerFired = FALSE

\* resty runs the operation once more: r.Attempt++ and the request is executed
RestyExecute ==
    /\ attempt' = attempt + 1
    /\ attemptCount' = attemptCount + 1
    /\ ctxAtStart' = ctxErr
    /\ pc' = "restyAttempting"

\* resty's loop ends and Post returns, with an error or without
RestyPostReturns(postErr) ==
    /\ lastErr' = postErr
    /\ pc' = "restyPost"

\* Generate up to restyReq.Post and the first attempt
RestyGenerateEnter ==
    /\ pc = "restyEntry"
    /\ IF req = Nil
       THEN /\ Return([resp |-> Nil, err |-> nilRequestError])
            /\ UNCHANGED <<attempt, attemptCount, ctxAtStart>>
       ELSE /\ RestyExecute
            /\ ret' = ret
    /\ UNCHANGED <<bucket, prefix, stores, puts, variant, fnCall, fnResult, retryConfig, apiKey, req, ctxErr, lastErr,
                   history, backoffs, timerFired>>

\* the attempt in flight ends
RestyAttemptReturn ==
    /\ pc = "restyAttempting"
    /\ \E o \in RestyOutcomes :
        /\ Feasible(o)
        /\ history' = Append(history,
              [outcome |-> o, ctx |-> ctxErr,
               result |-> [resp |-> Nil, err |-> Nil,
                           sent |-> [method |-> "POST",
                                     path |-> determineEndpoint(req.Params),
                                     headers |-> requestHeaders(apiKey, req),
                                     body |-> req.Params]]])
    /\ pc' = "restyCtxCheck"
    /\ UNCHANGED <<bucket, prefix, stores, puts, variant, fnCall, fnResult, retryConfig, apiKey, req, ctxErr, attempt,
                   lastErr, ret, attemptCount, ctxAtStart, backoffs, timerFired>>

\* resty's loop after an attempt: context, retry condition, retries left, then the wait
RestyRetryDecision ==
    /\ pc = "restyCtxCheck"
    /\ LET o == history[Len(history)].outcome
           opErr == IF o.kind = "doErr" THEN PostErr ELSE PostOK
       IN  IF \/ restyRetryCount(retryConfig) = 0
              \/ ctxErr # "nil"
              \/ ~restyRetryCondition(o)
              \/ attempt - 1 = restyRetryCount(retryConfig)
           THEN /\ RestyPostReturns(opErr)
                /\ UNCHANGED <<backoffs, timerFired>>
           ELSE /\ backoffs' = Append(backoffs, customRetryAfter(attempt))
                /\ timerFired' = FALSE
                /\ pc' = "restySelect"
                /\ lastErr' = lastErr
    /\ UNCHANGED <<bucket, prefix, stores, puts, variant, fnCall, fnResult, retryConfig, apiKey, req, ctxErr, attempt, ret,
                   attemptCount, ctxAtStart, history>>

\* the wait elapses before resty's select has looked at its channels
RestyTimerFires ==
    /\ pc = "restySelect"
    /\ ~timerFired
    /\ timerFired' = TRUE
    /\ UNCHANGED <<bucket, prefix, stores, puts, variant, fnCall, fnResult, retryConfig, apiKey, req, ctxErr, pc, attempt,
                   lastErr, ret, attemptCount, ctxAtStart, history, backoffs>>

\* resty's select finds the timer ready
RestySelectTimer ==
    /\ pc = "restySelect"
    /\ timerFired
    /\ RestyExecute
    /\ UNCHANGED <<bucket, prefix, stores, puts, variant, fnCall, fnResult, retryConfig, apiKey, req, ctxErr, lastErr, ret,
                   history, backoffs, timerFired>>

\* resty's select finds ctx.Done() ready: the loop returns ctx.Err()
RestySelectDone ==
    /\ pc = "restySelect"
    /\ ctxErr # "nil"
    /\ RestyPostReturns(PostErr)
    /\ UNCHANGED <<bucket, prefix, stores, puts, variant, fnCall, fnResult, retryConfig, apiKey, req, ctxErr, attempt, ret,
                   attemptCount, ctxAtStart, history, backoffs, timerFired>>

\* resty's select finds no channel ready and blocks
RestySelectBlock ==
    /\ pc = "restySelect"
    /\ ~timerFired
    /\ ctxErr = "nil"
    /\ pc' = "restyBlocked"
    /\ UNCHANGED <<bucket, prefix, stores, puts, variant, fnCall, fnResult, retryConfig, apiKey, req, ctxErr, attempt,
                   lastErr, ret, attemptCount, ctxAtStart, history, backoffs, timerFired>>

\* the wait elapses while resty's select is blocked
RestyBlockedTimerFires ==
    /\ pc = "restyBlocked"
    /\ timerFired' = TRUE
    /\ RestyExecute
    /\ UNCHANGED <<bucket, prefix, stores, puts, variant, fnCall, fnResult, retryConfig, apiKey, req, ctxErr, lastErr, ret,
                   history, backoffs>>

\* the context ends while resty's select is blocked
RestyBlockedContextDone ==
    /\ pc = "restyBlocked"
    /\ \E e \in CtxErrs \ {"nil"} : ctxErr' = e
    /\ RestyPostReturns(PostErr)
    /\ UNCHANGED <<bucket, prefix, stores, puts, variant, fnCall, fnResult, retryConfig, apiKey, req, attempt, ret,
                   attemptCount, ctxAtStart, history, backoffs, timerFired>>

\* Generate after restyReq.Post: the error or the response is turned into the result
RestyGenerateReturn ==
    /\ pc = "restyPost"
    /\ Return(restyGenerateReturn(req, history[Len(history)].outcome,
                                  lastErr = PostErr, ctxErr))
    /\ UNCHANGED <<bucket, prefix, stores, puts, variant, fnCall, fnResult, retryConfig, apiKey, req, ctxErr, attempt,
                   lastErr, attemptCount, ctxAtStart, history, backoffs, timerFired>>

RestyNext ==
    \/ RestyGenerateEnter
    \/ RestyAttemptReturn
    \/ RestyRetryDecision
    \/ RestyTimerFires
    \/ RestySelectTimer
    \/ RestySelectDone
    \/ RestySelectBlock
    \/ RestyBlockedTimerFires
    \/ RestyBlockedContextDone
    \/ RestyGenerateReturn
    \/ Cancel
    \/ DeadlineExceeded

RestySpec == RestyInit /\ [][RestyNext]_vars

(* ------------- concurrent Generate calls on one client ---------------- *)
(* In ConcurrentSpec the client fields retryConfig and apiKey are shared    *)
(* and every other variable is a function over Calls: the parameters and   *)
(* local variables of each call of Generate. The wait of a call ends by    *)
(* whichever case of its select is ready.                                  *)

Calls == {"a", "b"}

\* the request of each call
ConcurrentRequests ==
    [a |-> [RequestID |-> "req-1", Params |-> {"messages"}],
     b |-> [RequestID |-> "", Params |-> {"prompt"}]]

\* what an attempt of a concurrent call meets
ConcurrentOutcomes ==
    {o \in Outcomes :
        \/ o.kind = "doErr"
        \/ o.kind = "response" /\ o.status \in {200, 400, 429} /\ o.body # BodyEmpty
                                /\ o.body # BodyText}

\* one loop variable is advanced for all calls
nextAttemptOf_Shared(att, c) == [d \in DOMAIN att |-> nextAttempt(att[d])]

\* attempt++ on the loop variable of call c
nextAttemptOf(att, c) == [att EXCEPT ![c] = nextAttempt(att[c])]

ConcurrentInit ==
    /\ \E config \in GenerateConfigs :
        /\ config.MaxRetries \in 0 .. ConcurrentRetriesBound
        /\ retryConfig = NewHTTPInferenceClient(config).retryConfig
        /\ apiKey = NewHTTPInferenceClient(config).apiKey
    /\ variant = "handrolled"
    /\ StoreIdle
    /\ fnCall = NoCall
    /\ fnResult = NotReturned
    /\ req = ConcurrentRequests
    /\ ctxErr = [c \in Calls |-> "nil"]
    /\ pc = [c \in Calls |-> "entry"]
    /\ attempt = [c \in Calls |-> 0]
    /\ lastErr = [c \in Calls |-> Nil]
    /\ ret = [c \in Calls |-> NoResult]
    /\ attemptCount = [c \in Calls |-> 0]
    /\ ctxAtStart = [c \in Calls |-> "nil"]
    /\ history = [c \in Calls |-> <<>>]
    /\ backoffs = [c \in Calls |-> <<>>]
    /\ timerFired = FALSE

\* call c returns r
ConcurrentReturn(c, r) ==
    /\ pc' = [pc EXCEPT ![c] = "done"]
    /\ ret' = [ret EXCEPT ![c] = r]

\* call c at the head of its retry loop, with loop variable a and last error e
ConcurrentLoopHead(c, a, e) ==
    IF loopCondition(retryConfig, a)
    THEN /\ pc' = [pc EXCEPT ![c] = "attempting"]
         /\ attemptCount' = [attemptCount EXCEPT ![c] = @ + 1]
         /\ ctxAtStart' = [ctxAtStart EXCEPT ![c] = ctxErr[c]]
         /\ ret' = ret
    ELSE /\ ConcurrentReturn(c, [resp |-> Nil, err |-> e])
         /\ UNCHANGED <<attemptCount, ctxAtStart>>

\* c.client.Do of call c on a context that is already done fails without a round trip
ConcurrentFeasible(c, o) ==
    ctxAtStart[c] # "nil" => o.kind \in {"marshalErr", "newRequestErr", "doErr"}

\* a call enters Generate
ConcurrentEnter ==
    \E c \in Calls :
        /\ pc[c] = "entry"
        /\ IF retryDisabled(retryConfig)
           THEN /\ pc' = [pc EXCEPT ![c] = "once"]
                /\ attemptCount' = [attemptCount EXCEPT ![c] = @ + 1]
                /\ ctxAtStart' = [ctxAtStart EXCEPT ![c] = ctxErr[c]]
                /\ ret' = ret
           ELSE ConcurrentLoopHead(c, 0, Nil)
        /\ UNCHANGED <<bucket, prefix, stores, puts, variant, fnCall, fnResult, retryConfig, apiKey, req, ctxErr, attempt,
                       lastErr, history, backoffs, timerFired>>

\* the single attempt of a call on a client without retry returns
ConcurrentOnceReturn ==
    \E c \in Calls, o \in ConcurrentOutcomes :
        /\ pc[c] = "once"
        /\ ConcurrentFeasible(c, o)
        /\ LET r == generateOnce(apiKey, req[c], o, ctxErr[c])
           IN  /\ history' = [history EXCEPT ![c] =
                                Append(@, [outcome |-> o, ctx |-> ctxErr[c], result |-> r])]
               /\ ConcurrentReturn(c, returnOnce(r))
        /\ UNCHANGED <<bucket, prefix, stores, puts, variant, fnCall, fnResult, retryConfig, apiKey, req, ctxErr, attempt,
                       lastErr, attemptCount, ctxAtStart, backoffs, timerFired>>

\* an attempt of the retry loop of a call returns
ConcurrentAttemptReturn ==
    \E c \in Calls, o \in ConcurrentOutcomes :
        /\ pc[c] = "attempting"
        /\ ConcurrentFeasible(c, o)
        /\ LET r == generateOnce(apiKey, req[c], o, ctxErr[c])
           IN  /\ history' = [history EXCEPT ![c] =
                                Append(@, [outcome |-> o, ctx |-> ctxErr[c], result |-> r])]
               /\ IF r.err = Nil
                  THEN /\ ConcurrentReturn(c, [resp |-> r.resp, err |-> Nil])
                       /\ lastErr' = lastErr
                  ELSE /\ lastErr' = [lastErr EXCEPT ![c] = r.err]
                       /\ IF nonRetryable(r.err)
                          THEN ConcurrentReturn(c, [resp |-> Nil, err |-> r.err])
                          ELSE IF retriesExhausted(retryConfig, attempt[c])
                          THEN ConcurrentReturn(c, [resp |-> Nil, err |-> lastErr'[c]])
                          ELSE /\ pc' = [pc EXCEPT ![c] = "ctxCheck"]
                               /\ ret' = ret
        /\ UNCHANGED <<bucket, prefix, stores, puts, variant, fnCall, fnResult, retryConfig, apiKey, req, ctxErr, attempt,
                       attemptCount, ctxAtStart, backoffs, timerFired>>

\* a call reads ctx.Err() after a retryable failure and starts its wait
ConcurrentContextCheck ==
    \E c \in Calls :
        /\ pc[c] = "ctxCheck"
        /\ IF contextDone(ctxErr[c])
           THEN /\ ConcurrentReturn(c, contextDoneReturn(lastErr[c]))
                /\ UNCHANGED backoffs
           ELSE /\ backoffs' = [backoffs EXCEPT ![c] = Append(@, attempt[c])]
                /\ pc' = [pc EXCEPT ![c] = "select"]
                /\ ret' = ret
        /\ UNCHANGED <<bucket, prefix, stores, puts, variant, fnCall, fnResult, retryConfig, apiKey, req, ctxErr, attempt,
                       lastErr, attemptCount, ctxAtStart, history, timerFired>>

\* the wait of a call ends by its timer and the call goes round its loop
ConcurrentWaitTimer ==
    \E c \in Calls :
        /\ pc[c] = "select"
        /\ attempt' = nextAttemptOf(attempt, c)
        /\ ConcurrentLoopHead(c, attempt'[c], lastErr[c])
        /\ UNCHANGED <<bucket, prefix, stores, puts, variant, fnCall, fnResult, retryConfig, apiKey, req, ctxErr, lastErr,
                       history, backoffs, timerFired>>

\* the wait of a call ends by ctx.Done()
ConcurrentWaitDone ==
    \E c \in Calls :
        /\ pc[c] = "select"
        /\ ctxErr[c] # "nil"
        /\ ConcurrentReturn(c, [resp |-> Nil, err |-> backoffCancelledError(ctxErr[c])])
        /\ UNCHANGED <<bucket, prefix, stores, puts, variant, fnCall, fnResult, retryConfig, apiKey, req, ctxErr, attempt,
                       lastErr, attemptCount, ctxAtStart, history, backoffs, timerFired>>

\* the context of a call is cancelled or its deadline passes
ConcurrentContextEnds ==
    \E c \in Calls, e \in CtxErrs \ {"nil"} :
        /\ pc[c] # "done"
        /\ ctxErr[c] = "nil"
        /\ ctxErr' = [ctxErr EXCEPT ![c] = e]
        /\ UNCHANGED <<bucket, prefix, stores, puts, variant, fnCall, fnResult, retryConfig, apiKey, req, pc, attempt,
                       lastErr, ret, attemptCount, ctxAtStart, history, backoffs, timerFired>>

ConcurrentNext ==
    \/ ConcurrentEnter
    \/ ConcurrentOnceReturn
    \/ ConcurrentAttemptReturn
    \/ ConcurrentContextCheck
    \/ ConcurrentWaitTimer
    \/ ConcurrentWaitDone
    \/ ConcurrentContextEnds

ConcurrentSpec == ConcurrentInit /\ [][ConcurrentNext]_vars

(* ------------- both clients, each on a request with an id ------------- *)

VariantsInit ==
    /\ Init \/ RestyInit
    /\ apiKey = "sk-test"
    /\ req # Nil
    /\ req.RequestID = "req-1"

VariantsNext == Next \/ RestyNext

VariantsSpec == VariantsInit /\ [][VariantsNext]_vars

(* ---------------------- the S3 files-store client --------------------- *)

MaxInt64 == 2 ^ (Int64Width - 1) - 1

\* two's-complement int64 arithmetic: the value of x as an int64
wrapInt64(x) ==
    ((x + 2 ^ (Int64Width - 1)) % 2 ^ Int64Width) - 2 ^ (Int64Width - 1)

\* an error value of the files store, errors.New or fmt.Errorf
StoreError(text) == [error |-> text]

ErrFileTooLarge == StoreError("file size exceeds limit")
ErrFileExists == StoreError("file already exists")

StoreCallers == {"a", "b"}
Locations == {"f1", "f2"}
Prefixes == {"", "uploads"}
FileSizeLimits == {-1, 0, 2, MaxInt64}

\* no object under the key
Absent == [absent |-> TRUE]

\* content of len bytes; from names the reader it comes from
Contents == [from : StoreCallers \cup {"earlier"}, len : 0 .. MaxContentLen]

\* the key of a location: the location itself or prefix/location
resolveKey(pfx, location) ==
    IF pfx = "" THEN <<location>> ELSE <<pfx, location>>

\* the reader is limited to the size limit itself
limitReaderN_NoExtraByte(fileSizeLimit) == fileSizeLimit

\* the N of io.LimitReader(reader, fileSizeLimit+1)
limitReaderN(fileSizeLimit) == wrapInt64(fileSizeLimit + 1)

\* io.ReadAll of io.LimitReader(reader, n): at most n bytes, none when n <= 0
readAll(content, n) ==
    [content EXCEPT !.len = IF n <= 0 THEN 0
                            ELSE IF content.len < n THEN content.len ELSE n]

\* the size check: int64(len(content)) > fileSizeLimit
tooLarge(content, fileSizeLimit) == content.len > fileSizeLimit

BatchFileMetadata(key, content) == [Location |-> key, Size |-> content.len]

StoreKey(c) == resolveKey(prefix, stores[c].location)

\* Store calls on one Client, each with its location, limit and reader
StoreInit ==
    /\ prefix \in Prefixes
    /\ bucket \in [{resolveKey(prefix, l) : l \in Locations} ->
                      {Absent, [from |-> "earlier", len |-> 1]}]
    /\ \E la, lb \in Locations, fa, fb \in FileSizeLimits, na, nb \in 0 .. MaxContentLen :
          stores = [c \in StoreCallers |->
                      [location |-> IF c = "a" THEN la ELSE lb,
                       fileSizeLimit |-> IF c = "a" THEN fa ELSE fb,
                       reader |-> [from |-> c, len |-> IF c = "a" THEN na ELSE nb],
                       pc |-> "head",
                       content |-> Nil,
                       meta |-> Nil,
                       err |-> Nil]]
    /\ puts = <<>>
    /\ variant = "handrolled"
    /\ fnCall = NoCall
    /\ fnResult = NotReturned
    /\ retryConfig = NewHTTPInferenceClient(ZeroConfig).retryConfig
    /\ apiKey = NewHTTPInferenceClient(ZeroConfig).apiKey
    /\ req = Nil
    /\ ctxErr = "nil"
    /\ pc = "entry"
    /\ attempt = 0
    /\ lastErr = Nil
    /\ ret = NoResult
    /\ attemptCount = 0
    /\ ctxAtStart = "nil"
    /\ history = <<>>
    /\ backoffs = <<>>
    /\ timerFired = FALSE

\* Store call c returns (meta, err)
StoreReturn(c, meta, err) ==
    stores' = [stores EXCEPT ![c].pc = "done", ![c].meta = meta, ![c].err = err]

GenerateUnchanged ==
    UNCHANGED <<variant, fnCall, fnResult, retryConfig, apiKey, req, ctxErr, pc, attempt,
                lastErr, ret, attemptCount, ctxAtStart, history, backoffs, timerFired>>

\* the first HeadObject: the object is there, is not there, or the request fails
StoreHeadObject(c) ==
    /\ stores[c].pc = "head"
    /\ \/ /\ bucket[StoreKey(c)] # Absent
          /\ StoreReturn(c, Nil, ErrFileExists)
       \/ /\ bucket[StoreKey(c)] = Absent
          /\ stores' = [stores EXCEPT ![c].pc = "read"]
       \/ StoreReturn(c, Nil, StoreError("failed to check if object exists"))
    /\ UNCHANGED <<bucket, prefix, puts>>
    /\ GenerateUnchanged

\* io.ReadAll of the limited reader and the size check
StoreReadContent(c) ==
    /\ stores[c].pc = "read"
    /\ \/ StoreReturn(c, Nil, StoreError("failed to read content"))
       \/ LET content == readAll(stores[c].reader, limitReaderN(stores[c].fileSizeLimit))
          IN  IF tooLarge(content, stores[c].fileSizeLimit)
              THEN StoreReturn(c, Nil, ErrFileTooLarge)
              ELSE stores' = [stores EXCEPT ![c].pc = "put", ![c].content = content]
    /\ UNCHANGED <<bucket, prefix, puts>>
    /\ GenerateUnchanged

\* PutObject: the request is issued; it stores the content or fails
StorePutObject(c) ==
    /\ stores[c].pc = "put"
    /\ puts' = Append(puts, [caller |-> c, key |-> StoreKey(c), body |-> stores[c].content])
    /\ \/ /\ bucket' = [bucket EXCEPT ![StoreKey(c)] = stores[c].content]
          /\ stores' = [stores EXCEPT ![c].pc = "head2"]
       \/ /\ bucket' = bucket
          /\ StoreReturn(c, Nil, StoreError("failed to upload object"))
    /\ UNCHANGED prefix
    /\ GenerateUnchanged

\* the second HeadObject, for the modification time, and the return of the metadata
StoreHeadObjectAgain(c) ==
    /\ stores[c].pc = "head2"
    /\ \/ StoreReturn(c, BatchFileMetadata(StoreKey(c), stores[c].content), Nil)
       \/ StoreReturn(c, Nil, StoreError("failed to get object metadata"))
    /\ UNCHANGED <<bucket, prefix, puts>>
    /\ GenerateUnchanged

StoreNext ==
    \/ \E c \in StoreCallers : StoreHeadObject(c)
    \/ \E c \in StoreCallers : StoreReadContent(c)
    \/ \E c \in StoreCallers : StorePutObject(c)
    \/ \E c \in StoreCallers : StoreHeadObjectAgain(c)

StoreSpec == StoreInit /\ [][StoreNext]_vars

(* ---------------------------- properties ------------------------------ *)

Categories ==
    {ErrCategoryRateLimit, ErrCategoryServer, ErrCategoryInvalidReq,
     ErrCategoryAuth, ErrCategoryUnknown}
RetryableCategories == {ErrCategoryRateLimit, ErrCategoryServer}

\* the i-th attempt failed, with a category in cats
FailedWith(i, cats) ==
    /\ history[i].result.err # Nil
    /\ history[i].result.err.Category \in cats

\* the attempts 1..k all failed with a retryable category
AllRetryableFailures(k) ==
    \A i \in 1 .. k : FailedWith(i, RetryableCategories)

Last(h) == h[Len(h)]

\* C1: with MaxRetries = 0 a Generate call on a non-nil request makes exactly one
\* attempt, never waits, and returns that attempt's response and error unchanged.
C1_SingleAttemptWhenRetryDisabled ==
    (retryConfig.MaxRetries = 0 /\ req # Nil) =>
        /\ attemptCount <= 1
        /\ backoffs = <<>>
        /\ pc = "done" =>
            /\ attemptCount = 1
            /\ Len(history) = 1
            /\ ret.resp = history[1].result.resp
            /\ ret.err = history[1].result.err

\* a retryable failure (429) was returned after one attempt, without retry
C1_Witness_RetryableNotRetried ==
    /\ retryConfig.MaxRetries = 0
    /\ pc = "done"
    /\ attemptCount = 1
    /\ history[1].outcome.status = 429
    /\ ret.err # Nil
    /\ ret.err.Category = ErrCategoryRateLimit

\* C2: with MaxRetries = N > 0 and a context that is never cancelled, a call
\* whose attempts all fail with RateLimit or Server ends after exactly N + 1
\* attempts with the error of the last attempt.
C2_ExhaustedAfterNPlusOneAttempts ==
    ( /\ pc = "done"
      /\ req # Nil
      /\ retryConfig.MaxRetries > 0
      /\ ctxErr = "nil"
      /\ AllRetryableFailures(Len(history)) ) =>
        /\ attemptCount = retryConfig.MaxRetries + 1
        /\ Len(history) = retryConfig.MaxRetries + 1
        /\ Len(backoffs) = retryConfig.MaxRetries
        /\ ret.resp = Nil
        /\ ret.err = Last(history).result.err

\* retries exhausted with RateLimit first and Server last: Server is returned
C2_Witness_MixedCategories ==
    /\ pc = "done"
    /\ retryConfig.MaxRetries = 2
    /\ ctxErr = "nil"
    /\ Len(history) = 3
    /\ AllRetryableFailures(3)
    /\ history[1].result.err.Category = ErrCategoryRateLimit
    /\ history[3].result.err.Category = ErrCategoryServer
    /\ ret.err.Category = ErrCategoryServer

\* C3: for MaxRetries >= 0, an attempt that fails with InvalidRequest, Auth or
\* Unknown is the last one: Generate has returned its error, with no wait after
\* it (one wait per earlier attempt), so a first such failure means 1 attempt.
C3_NonRetryableReturnsImmediately ==
    \A i \in 1 .. Len(history) :
        FailedWith(i, Categories \ RetryableCategories) =>
            /\ i = Len(history)
            /\ attemptCount = i
            /\ Len(backoffs) = i - 1
            /\ pc = "done"
            /\ ret.resp = Nil
            /\ ret.err = history[i].result.err

\* a 401 on the first attempt of a client with retries: one attempt, Auth
C3_Witness_AuthNotRetried ==
    /\ retryConfig.MaxRetries = MaxRetriesBound
    /\ pc = "done"
    /\ attemptCount = 1
    /\ history[1].outcome.status = 401
    /\ ret.err.Category = ErrCategoryAuth

\* C4: with MaxRetries = N > 0, a success is final (Generate returns that
\* response with a nil error and the attempt is the last), and while the context
\* is not cancelled k <= N retryable failures do not end the call: the attempt
\* k + 1 follows.
C4_SuccessAfterRetries ==
    (req # Nil /\ retryConfig.MaxRetries > 0) =>
        /\ (Len(history) >= 1 /\ Last(history).result.err = Nil) =>
            /\ pc = "done"
            /\ attemptCount = Len(history)
            /\ Len(backoffs) = Len(history) - 1
            /\ ret.resp = Last(history).result.resp
            /\ ret.resp # Nil
            /\ ret.err = Nil
        /\ ( /\ pc = "done"
             /\ ctxErr = "nil"
             /\ AllRetryableFailures(Len(history)) ) =>
                Len(history) > retryConfig.MaxRetries

\* 429, 429, 200 with MaxRetries = 3: three attempts and success
C4_Witness_TwoRateLimitsThenSuccess ==
    /\ retryConfig.MaxRetries = 3
    /\ pc = "done"
    /\ ctxErr = "nil"
    /\ attemptCount = 3
    /\ Len(history) = 3
    /\ history[1].outcome.status = 429
    /\ history[2].outcome.status = 429
    /\ history[3].outcome.status = 200
    /\ ret.err = Nil
    /\ ret.resp # Nil

\* C5: with MaxRetries = N >= 0 at most N + 1 attempts are ever started.
C5_AttemptsBounded ==
    retryConfig.MaxRetries >= 0 => attemptCount <= retryConfig.MaxRetries + 1

\* the bound is met, with the context cancelled on the way
C5_Witness_BoundReached ==
    /\ retryConfig.MaxRetries >= 2
    /\ attemptCount = retryConfig.MaxRetries + 1
    /\ ctxErr = "Canceled"

\* the error Generate returns when the context ends the backoff wait
IsCancelledDuringRetry(r) ==
    /\ r.resp = Nil
    /\ r.err # Nil
    /\ r.err.Category = ErrCategoryUnknown
    /\ r.err.Category \notin RetryableCategories
    /\ r.err.Message = Msg("request cancelled during retry")

\* C6: when the context is cancelled or expires during the backoff wait before
\* the timer has fired (select is blocked, or select finds only ctx.Done()
\* ready), the wait ends at once: Generate returns a cancellation error of
\* category Unknown and starts no further attempt, then or later.
C6_CancelPreemptsBackoff ==
    [][ /\ ( \/ (pc = "blocked" /\ ctxErr' # "nil")
             \/ (pc = "select" /\ ~timerFired /\ ctxErr # "nil" /\ pc' # "select") ) =>
            /\ pc' = "done"
            /\ IsCancelledDuringRetry(ret')
            /\ attemptCount' = attemptCount
        /\ pc = "done" => (pc' = "done" /\ attemptCount' = attemptCount /\ ret' = ret)
      ]_vars

\* a cancel ended a wait whose timer had not fired, with retries left
C6_Witness_CancelledInWait ==
    /\ pc = "done"
    /\ ctxErr = "Canceled"
    /\ ~timerFired
    /\ Len(backoffs) = attemptCount
    /\ attemptCount <= retryConfig.MaxRetries
    /\ IsCancelledDuringRetry(ret)

\* C7 (as claimed): when the check before the backoff wait finds the context
\* cancelled or expired, Generate returns a cancellation error of category
\* Unknown and not the error of the failed attempt.
C7_CancelledBeforeWaitReturnsCancellation ==
    [][ (pc = "ctxCheck" /\ ctxErr # "nil" /\ pc' = "done") =>
            /\ ret'.resp = Nil
            /\ ret'.err # Nil
            /\ ret'.err.Category = ErrCategoryUnknown
            /\ ret'.err # lastErr
      ]_vars

\* C8 (as claimed): no attempt is started while the context is already cancelled
\* or expired.
C8_NoAttemptOnDoneContext ==
    pc \in {"once", "attempting"} => ctxAtStart = "nil"

\* the same for the attempts after a backoff wait alone
C8_NoRetryOnDoneContext ==
    (pc = "attempting" /\ attempt > 0) => ctxAtStart = "nil"

\* C9: a transport failure under an exceeded deadline is classified Server, and
\* it is the last attempt of the call for every MaxRetries: no wait follows it
\* (one wait per earlier attempt) and the call is at the context check or over.
C9_DeadlineFailureEndsCall ==
    \A i \in 1 .. Len(history) :
        (history[i].outcome.kind = "doErr" /\ history[i].ctx = "DeadlineExceeded") =>
            /\ history[i].result.err.Category = ErrCategoryServer
            /\ i = Len(history)
            /\ attemptCount = i
            /\ Len(backoffs) = i - 1
            /\ pc \in {"ctxCheck", "done"}

\* the deadline passed during the first attempt of a client with retries left:
\* the call is over after that attempt, with a Server error
C9_Witness_DeadlineDuringAttempt ==
    /\ pc = "done"
    /\ retryConfig.MaxRetries >= 2
    /\ Len(history) = 1
    /\ ctxAtStart = "nil"
    /\ history[1].outcome.kind = "doErr"
    /\ history[1].ctx = "DeadlineExceeded"
    /\ ret.err # Nil
    /\ ret.err.Category = ErrCategoryServer

\* C10: a failed transport call is classified by ctx.Err() at that time: Canceled
\* gives Unknown and ends the call; DeadlineExceeded gives Server; any other
\* failure gives Server, and then, with retries left, the call ends after this
\* attempt only if the context was cancelled or expired afterwards.
C10_TransportFailureClassification ==
    \A i \in 1 .. Len(history) :
        history[i].outcome.kind = "doErr" =>
            LET e == history[i].result.err
                c == history[i].ctx
            IN  /\ e # Nil
                /\ history[i].result.resp = Nil
                /\ c = "Canceled" =>
                    /\ e.Category = ErrCategoryUnknown
                    /\ i = Len(history)
                    /\ pc = "done"
                    /\ ret.err = e
                /\ c = "DeadlineExceeded" => e.Category = ErrCategoryServer
                /\ c = "nil" =>
                    /\ e.Category = ErrCategoryServer
                    /\ ( /\ pc = "done"
                         /\ i = Len(history)
                         /\ retryConfig.MaxRetries > 0
                         /\ i <= retryConfig.MaxRetries ) => ctxErr # "nil"

\* a network error was retried, and the retry failed under a cancelled context
C10_Witness_RetriedThenCancelled ==
    /\ pc = "done"
    /\ Len(history) = 2
    /\ history[1].outcome.kind = "doErr"
    /\ history[1].ctx = "nil"
    /\ history[2].outcome.kind = "doErr"
    /\ history[2].ctx = "Canceled"
    /\ ret.err.Category = ErrCategoryUnknown

(* C11: mapStatusCodeToCategory gives every status code one category:     *)
(* 400 InvalidReq; 401 and 403 Auth; 429 RateLimit; every code from 500 up *)
(* Server; every other code from 400 to 499 Unknown.                       *)
C11_StatusCategoryTable ==
    (fnCall.fn = "mapStatusCodeToCategory" /\ fnResult.returned) =>
        LET c == fnCall.statusCode
            v == fnResult.value
        IN  /\ v \in Categories
            /\ c = 400 => v = ErrCategoryInvalidReq
            /\ c \in {401, 403} => v = ErrCategoryAuth
            /\ c = 429 => v = ErrCategoryRateLimit
            /\ c >= 500 => v = ErrCategoryServer
            /\ c \in (400 .. 499) \ {400, 401, 403, 429} => v = ErrCategoryUnknown

\* a 5xx code outside the listed four has been classified
C11_Witness_UnlistedServerCode ==
    /\ fnCall.fn = "mapStatusCodeToCategory" /\ fnResult.returned
    /\ fnCall.statusCode = 507
    /\ fnResult.value = ErrCategoryServer

(* C12: IsRetryable is true of an error exactly when its category is      *)
(* RateLimit or Server, and the retry loop decides by that predicate alone: *)
(* an error that is not retryable ends the call at once with that error,   *)
(* and a retryable error with retries left ends it only when the context   *)
(* is done.                                                                *)
C12_LoopDecidesByIsRetryable ==
    \A i \in 1 .. Len(history) :
        LET e == history[i].result.err
        IN  e # Nil =>
              /\ IsRetryable(e) <=> e.Category \in {ErrCategoryRateLimit, ErrCategoryServer}
              /\ ~IsRetryable(e) <=>
                    e.Category \in {ErrCategoryInvalidReq, ErrCategoryAuth, ErrCategoryUnknown}
              /\ (retryConfig.MaxRetries > 0 /\ ~IsRetryable(e)) =>
                    /\ i = Len(history) /\ pc = "done"
                    /\ ret = [resp |-> Nil, err |-> e]
              /\ (retryConfig.MaxRetries > 0 /\ IsRetryable(e) /\ i <= retryConfig.MaxRetries
                     /\ i = Len(history) /\ pc = "done") => ctxErr # "nil"

\* two Server errors of different origin, a failed transport and a 503, were both retried
C12_Witness_SameCategoryDifferentOrigin ==
    /\ Len(history) >= 3
    /\ history[1].outcome.kind = "doErr" /\ history[1].result.err.Category = ErrCategoryServer
    /\ history[2].outcome.status = 503 /\ history[2].result.err.Category = ErrCategoryServer
    /\ history[3].result.err # Nil /\ history[3].result.err.Category = ErrCategoryUnknown
    /\ pc = "done"

\* the retry fields are in range: durations not negative, JitterFraction in [0, 1]
RetryConfigInRange(cfg) ==
    /\ cfg.InitialBackoff >= 0
    /\ cfg.MaxBackoff >= 0
    /\ cfg.JitterFraction.n >= 0
    /\ cfg.JitterFraction.n <= cfg.JitterFraction.d

BackoffReturned == fnCall.fn = "calculateBackoff" /\ fnResult.returned

DefaultRetryConfig(cfg) ==
    /\ cfg.InitialBackoff = DefaultInitialBackoff
    /\ cfg.MaxBackoff = DefaultMaxBackoff
    /\ cfg.BackoffFactor = DefaultBackoffFactor
    /\ cfg.JitterFraction = DefaultJitterFraction

\* raw = min(InitialBackoff * BackoffFactor^attempt, MaxBackoff) never exceeds MaxBackoff,
\* and with the defaults attempts 0, 1 and 2 wait 1s, 2s and 4s within 10%
C14_RawCappedAndDefaults ==
    BackoffReturned =>
        LET cfg == fnCall.cfg
            raw == cappedBackoff(cfg, fnCall.attempt)
            delay == fnResult.value
        IN  /\ raw.n <= cfg.MaxBackoff * raw.d
            /\ (DefaultRetryConfig(cfg) /\ fnCall.attempt <= 2) =>
                  /\ 9 * DefaultInitialBackoff * Pow(2, fnCall.attempt) <= 10 * delay
                  /\ 10 * delay <= 11 * DefaultInitialBackoff * Pow(2, fnCall.attempt)

(* C14 as amended: with the retry fields in range, the delay is a value of *)
(* [raw * (1 - JitterFraction), raw * (1 + JitterFraction)] cut down to a  *)
(* whole tick, so it is at most raw * (1 + JitterFraction) and more than   *)
(* raw * (1 - JitterFraction) - 1; raw never exceeds MaxBackoff; with the  *)
(* defaults attempts 0, 1 and 2 give 1s, 2s and 4s within 10%.             *)
C14_DelayWithinJitterUpToTruncation ==
    /\ C14_RawCappedAndDefaults
    /\ (BackoffReturned /\ RetryConfigInRange(fnCall.cfg)) =>
          LET cfg == fnCall.cfg
              j == cfg.JitterFraction
              raw == cappedBackoff(cfg, fnCall.attempt)
              delay == fnResult.value
          IN  /\ delay * raw.d * j.d <= raw.n * (j.d + j.n)
              /\ (delay + 1) * raw.d * j.d > raw.n * (j.d - j.n)

\* C14 as stated: the delay itself is in [raw * (1 - JitterFraction), raw * (1 + JitterFraction)]
C14_DelayWithinJitter ==
    /\ C14_RawCappedAndDefaults
    /\ (BackoffReturned /\ RetryConfigInRange(fnCall.cfg)) =>
          LET cfg == fnCall.cfg
              j == cfg.JitterFraction
              raw == cappedBackoff(cfg, fnCall.attempt)
              delay == fnResult.value
          IN  /\ delay * raw.d * j.d <= raw.n * (j.d + j.n)
              /\ delay * raw.d * j.d >= raw.n * (j.d - j.n)

\* the conversion to a Duration took the delay below raw * (1 - JitterFraction)
C14_Witness_TruncatedBelowInterval ==
    /\ BackoffReturned /\ RetryConfigInRange(fnCall.cfg)
    /\ LET cfg == fnCall.cfg
           j == cfg.JitterFraction
           raw == cappedBackoff(cfg, fnCall.attempt)
       IN  fnResult.value * raw.d * j.d < raw.n * (j.d - j.n)

(* C15: determineEndpoint depends only on which of the keys messages and  *)
(* prompt are in Params: messages present gives /v1/chat/completions, also *)
(* when prompt is present; prompt without messages gives /v1/completions;  *)
(* neither gives /v1/chat/completions.                                     *)
C15_EndpointByKeySet ==
    (fnCall.fn = "determineEndpoint" /\ fnResult.returned) =>
        LET p == fnCall.params
            v == fnResult.value
        IN  /\ v \in {"/v1/chat/completions", "/v1/completions"}
            /\ "messages" \in p => v = "/v1/chat/completions"
            /\ ("messages" \notin p /\ "prompt" \in p) => v = "/v1/completions"
            /\ ("messages" \notin p /\ "prompt" \notin p) => v = "/v1/chat/completions"
            /\ v = determineEndpoint(p \cap {"messages", "prompt"})

\* both keys were present, among others, and the chat endpoint was chosen
C15_Witness_BothKeys ==
    /\ fnCall.fn = "determineEndpoint" /\ fnResult.returned
    /\ {"messages", "prompt", "model"} \subseteq fnCall.params
    /\ fnResult.value = "/v1/chat/completions"

(* C16: NewHTTPInferenceClient fills in the retry fields exactly when      *)
(* MaxRetries > 0: a zero InitialBackoff, MaxBackoff, BackoffFactor or     *)
(* JitterFraction becomes 1s, 60s, 2.0 or 0.1 and a non-zero one is kept;  *)
(* otherwise, MaxRetries = 0 included, every field is kept as supplied.    *)
C16_RetryDefaults ==
    (fnCall.fn = "NewHTTPInferenceClient" /\ fnResult.returned) =>
        LET c == fnCall.config
            rc == fnResult.value.retryConfig
        IN  /\ rc.MaxRetries = c.MaxRetries
            /\ c.MaxRetries > 0 =>
                  /\ rc.InitialBackoff = IF c.InitialBackoff = 0 THEN 1000 ELSE c.InitialBackoff
                  /\ rc.MaxBackoff = IF c.MaxBackoff = 0 THEN 60000 ELSE c.MaxBackoff
                  /\ rc.BackoffFactor = IF c.BackoffFactor = Rat(0, 1) THEN Rat(2, 1)
                                        ELSE c.BackoffFactor
                  /\ rc.JitterFraction = IF c.JitterFraction = Rat(0, 1) THEN Rat(1, 10)
                                         ELSE c.JitterFraction
            /\ c.MaxRetries <= 0 =>
                  /\ rc.InitialBackoff = c.InitialBackoff
                  /\ rc.MaxBackoff = c.MaxBackoff
                  /\ rc.BackoffFactor = c.BackoffFactor
                  /\ rc.JitterFraction = c.JitterFraction

\* a client with retries: one unset field was filled in, a set one kept
C16_Witness_PartialDefaults ==
    /\ fnCall.fn = "NewHTTPInferenceClient" /\ fnResult.returned
    /\ fnCall.config.MaxRetries = 2
    /\ fnCall.config.InitialBackoff = 0 /\ fnCall.config.MaxBackoff = 2000
    /\ fnCall.config.BackoffFactor = Rat(0, 1) /\ fnCall.config.JitterFraction = Rat(1, 2)
    /\ fnResult.value.retryConfig =
          [MaxRetries |-> 2, InitialBackoff |-> 1000, MaxBackoff |-> 2000,
           BackoffFactor |-> Rat(2, 1), JitterFraction |-> Rat(1, 2)]

(* C17: an attempt answered with status 200 and an empty or non-JSON body *)
(* succeeds: the response has a nil RawData and the body as received,      *)
(* there is no error, and Generate returns that response without another   *)
(* attempt.                                                                *)
C17_UnparseableBodyIsSuccess ==
    \A i \in 1 .. Len(history) :
        LET h == history[i]
        IN  (h.outcome.kind = "response" /\ h.outcome.status = 200
               /\ h.outcome.body \in {BodyEmpty, BodyText}) =>
              /\ h.result.err = Nil
              /\ h.result.resp # Nil
              /\ h.result.resp.RawData = Nil
              /\ h.result.resp.Response = h.outcome.body
              /\ h.result.resp.RequestID = req.RequestID
              /\ i = Len(history)
              /\ pc = "done"
              /\ ret = [resp |-> h.result.resp, err |-> Nil]

\* after a retried 503 the second attempt got a 200 with a text body, and the call succeeded
C17_Witness_TextBodyAfterRetry ==
    /\ Len(history) = 2
    /\ history[1].outcome.status = 503
    /\ history[2].outcome.status = 200 /\ history[2].outcome.body = BodyText
    /\ pc = "done" /\ ret.err = Nil /\ ret.resp.RawData = Nil
    /\ ret.resp.Response = BodyText

(* C18: with MaxRetries >= 0 a Generate call returns either a response    *)
(* and no error or an error and no response, never both and never neither; *)
(* the error is one InferenceError, that of the last attempt or of the     *)
(* call itself, and before the return nothing has been handed out.         *)
C18_ExactlyOneOfResponseAndError ==
    retryConfig.MaxRetries >= 0 =>
        /\ pc # "done" => ret = NoResult
        /\ pc = "done" =>
              /\ (ret.resp = Nil) # (ret.err = Nil)
              /\ ret.resp # Nil =>
                    /\ Len(history) >= 1
                    /\ ret.resp = Last(history).result.resp
              /\ ret.err # Nil =>
                    \/ Len(history) = 0 /\ req = Nil
                    \/ Len(history) >= 1 /\ ret.err = Last(history).result.err
                    \/ Len(history) >= 1 /\ IsCancelledDuringRetry(ret)

\* three attempts failed in three ways and the caller got the last error only
C18_Witness_OnlyFinalError ==
    /\ pc = "done" /\ Len(history) = 3
    /\ ret.resp = Nil /\ ret.err = history[3].result.err
    /\ history[1].result.err # ret.err
    /\ history[2].result.err # ret.err
    /\ history[1].result.err # history[2].result.err

\* attempt i failed before c.client.Do: nothing was sent, the error is not retryable,
\* and Generate returned it after that attempt without a wait
FailedBeforeNetwork(i) ==
    LET h == history[i]
    IN  /\ h.result.sent = Nil
        /\ h.result.resp = Nil
        /\ h.result.err # Nil
        /\ ~IsRetryable(h.result.err)
        /\ i = Len(history)
        /\ Len(backoffs) = i - 1
        /\ pc = "done"
        /\ ret = [resp |-> Nil, err |-> h.result.err]

(* C19 as amended: a serialization failure and a request-construction     *)
(* failure never reach the network, are not retryable, and Generate        *)
(* returns after that one attempt; the serialization failure is            *)
(* InvalidReq and the request-construction failure is Unknown.             *)
C19_PreNetworkFailuresNotRetried ==
    \A i \in 1 .. Len(history) :
        /\ history[i].outcome.kind = "marshalErr" =>
              /\ FailedBeforeNetwork(i)
              /\ history[i].result.err.Category = ErrCategoryInvalidReq
        /\ history[i].outcome.kind = "newRequestErr" =>
              /\ FailedBeforeNetwork(i)
              /\ history[i].result.err.Category = ErrCategoryUnknown

\* C19 as stated: both failures are InvalidReq
C19_PreNetworkFailuresAreInvalidReq ==
    \A i \in 1 .. Len(history) :
        history[i].outcome.kind \in {"marshalErr", "newRequestErr"} =>
            /\ FailedBeforeNetwork(i)
            /\ history[i].result.err.Category = ErrCategoryInvalidReq

\* with retries left, the request could not be constructed and the call ended
C19_Witness_ConstructionFailureEndsCall ==
    /\ retryConfig.MaxRetries >= 2
    /\ Len(history) = 1
    /\ history[1].outcome.kind = "newRequestErr"
    /\ history[1].result.sent = Nil
    /\ backoffs = <<>>
    /\ pc = "done"
    /\ ret.err.Category = ErrCategoryUnknown

(* C20: whatever the retry configuration, Generate on a nil request        *)
(* returns a nil response and an InvalidReq error, and makes no attempt    *)
(* and no backoff wait.                                                    *)
C20_NilRequestRejected ==
    req = Nil =>
        /\ attemptCount = 0
        /\ history = <<>>
        /\ backoffs = <<>>
        /\ pc \in {"entry", "done"}
        /\ pc = "done" =>
              /\ ret.resp = Nil
              /\ ret.err # Nil
              /\ ret.err.Category = ErrCategoryInvalidReq
              /\ ret.err.Message = Msg("request cannot be nil")

\* a client with retries was called with a nil request and has returned
C20_Witness_NilRequestWithRetries ==
    /\ req = Nil
    /\ retryConfig.MaxRetries = MaxRetriesBound
    /\ pc = "done"
    /\ ret.err.Category = ErrCategoryInvalidReq

\* the values sent under the header name
HeaderValues(headers, name) == {h[2] : h \in {x \in headers : x[1] = name}}

(* C21: every attempt that hands a request to the transport sends          *)
(* Content-Type: application/json; it sends Authorization: Bearer <key>    *)
(* exactly when the client's API key is not empty, and X-Request-ID with   *)
(* the RequestID exactly when the request's RequestID is not empty.        *)
C21_HeadersOfEveryAttempt ==
    \A i \in 1 .. Len(history) :
        LET sent == history[i].result.sent
        IN  sent # Nil =>
              /\ HeaderValues(sent.headers, "Content-Type") = {"application/json"}
              /\ HeaderValues(sent.headers, "Authorization") =
                    IF apiKey # "" THEN {"Bearer " \o apiKey} ELSE {}
              /\ HeaderValues(sent.headers, "X-Request-ID") =
                    IF req.RequestID # "" THEN {req.RequestID} ELSE {}
              /\ \A h \in sent.headers :
                    h[1] \in {"Content-Type", "Authorization", "X-Request-ID"}

\* a retry of a client with a key and a request without an id: one header present, one absent
C21_Witness_KeyButNoRequestID ==
    /\ Len(history) = 2
    /\ apiKey = "sk-test" /\ req # Nil /\ req.RequestID = ""
    /\ history[2].result.sent # Nil
    /\ <<"Authorization", "Bearer sk-test">> \in history[2].result.sent.headers
    /\ HeaderValues(history[2].result.sent.headers, "X-Request-ID") = {}

(* C22: a Generate call that succeeds returns a response whose RequestID   *)
(* is the RequestID of the request it was given, on the first attempt and  *)
(* on a retry alike.                                                       *)
C22_ResponseEchoesRequestID ==
    (pc = "done" /\ ret.resp # Nil) =>
        /\ ret.err = Nil
        /\ ret.resp.RequestID = req.RequestID

\* the third attempt succeeded and the response carries the request's id
C22_Witness_EchoAfterTwoRetries ==
    /\ pc = "done" /\ Len(history) = 3
    /\ req # Nil /\ req.RequestID = "req-1"
    /\ history[3].outcome.body = BodyJSON
    /\ ret.resp # Nil /\ ret.resp.RequestID = "req-1"

(* C23: in a Generate call with MaxRetries > 0 there is no wait before the *)
(* first attempt; an attempt after the first starts only when every        *)
(* earlier attempt failed with a retryable error and the one wait after    *)
(* the previous attempt ended by its timer; and when the retries are       *)
(* exhausted no wait follows the last attempt.                             *)
C23_RetryOnlyAfterCompletedWait ==
    retryConfig.MaxRetries > 0 =>
        /\ attemptCount = 0 => backoffs = <<>>
        /\ Len(backoffs) <= Len(history)
        /\ attemptCount <= Len(backoffs) + 1
        /\ pc = "attempting" =>
              /\ attemptCount = Len(backoffs) + 1
              /\ Len(history) = Len(backoffs)
              /\ AllRetryableFailures(Len(history))
              /\ attemptCount >= 2 => timerFired
        /\ pc \in {"select", "blocked"} =>
              /\ Len(backoffs) = Len(history)
              /\ AllRetryableFailures(Len(history))
        /\ (pc = "done" /\ Len(history) = retryConfig.MaxRetries + 1) =>
              Len(backoffs) = retryConfig.MaxRetries

\* two retries, each after a wait that its timer ended, and no wait after the last failure
C23_Witness_TwoWaitsThenExhausted ==
    /\ retryConfig.MaxRetries = 2
    /\ pc = "done" /\ Len(history) = 3 /\ Len(backoffs) = 2
    /\ timerFired /\ ctxErr = "nil"
    /\ ret.err # Nil /\ IsRetryable(ret.err)

(* C24: in the hand-rolled loop and in the resty retry hook alike, the     *)
(* index handed to calculateBackoff counts the retries already made: the   *)
(* wait before the first retry uses 0 and the wait before the k-th retry   *)
(* uses k - 1.                                                             *)
C24_BackoffIndexCountsRetries ==
    /\ \A k \in 1 .. Len(backoffs) : backoffs[k] = k - 1
    /\ Len(backoffs) <= attemptCount
    /\ pc \in {"attempting", "restyAttempting"} => Len(backoffs) = attemptCount - 1

\* the resty-backed client is in its third retry: its hook was asked three times
C24_Witness_RestyThirdRetry ==
    /\ variant = "resty"
    /\ pc = "restyAttempting"
    /\ attempt = 4
    /\ backoffs = <<0, 1, 2>>

\* the attempts of the call that have started and not yet ended
InFlight == attemptCount - Len(history)

(* C25: within one Generate call at most one attempt is in flight at any   *)
(* time, and none is in flight while the call checks the context or waits  *)
(* out a backoff.                                                          *)
C25_AttemptsSequential ==
    /\ InFlight \in {0, 1}
    /\ InFlight = 1 <=> pc \in {"once", "attempting"}
    /\ pc \in {"ctxCheck", "select", "blocked"} => InFlight = 0
    /\ pc \in {"select", "blocked"} => Len(backoffs) = Len(history)

\* the call is blocked in its second wait: two attempts have ended, none is in flight
C25_Witness_WaitingBetweenAttempts ==
    /\ pc = "blocked"
    /\ attemptCount = 2 /\ Len(history) = 2 /\ Len(backoffs) = 2
    /\ InFlight = 0

\* the parameters, local variables and result of call c
LocalState(c) ==
    <<req[c], ctxErr[c], pc[c], attempt[c], lastErr[c], ret[c], attemptCount[c],
      ctxAtStart[c], history[c], backoffs[c]>>

\* what call c has done and returned follows from its own outcomes and its own context
DeterminedByOwnOutcomes(c) ==
    /\ attemptCount[c] <= retryConfig.MaxRetries + 1
    /\ attemptCount[c] - Len(history[c]) \in {0, 1}
    /\ Len(backoffs[c]) - attempt[c] \in {0, 1}
    /\ pc[c] = "attempting" => attempt[c] = Len(backoffs[c])
    /\ \A k \in 1 .. Len(backoffs[c]) : backoffs[c][k] = k - 1
    /\ \A i \in 1 .. Len(history[c]) :
          /\ history[c][i].result =
                generateOnce(apiKey, req[c], history[c][i].outcome, history[c][i].ctx)
          /\ i < Len(history[c]) =>
                /\ history[c][i].result.err # Nil
                /\ IsRetryable(history[c][i].result.err)
    /\ pc[c] = "done" =>
          LET last == history[c][Len(history[c])].result
          IN  /\ Len(history[c]) >= 1
              /\ \/ ret[c] = [resp |-> last.resp, err |-> last.err]
                 \/ /\ ret[c] = [resp |-> Nil, err |-> backoffCancelledError(ctxErr[c])]
                    /\ ctxErr[c] # "nil"
                    /\ last.err # Nil /\ IsRetryable(last.err)
                    /\ Len(backoffs[c]) = Len(history[c])

(* C26: concurrent Generate calls on one client are independent. Every     *)
(* step is the step of one call and leaves the client's retryConfig and    *)
(* apiKey and the other call's request, context, loop variable, last       *)
(* error, waits and result as they were; and in every interleaving the     *)
(* attempts, the backoff indices and the result of each call follow from   *)
(* that call's own attempt outcomes and its own context.                   *)
C26_ConcurrentCallsIndependent ==
    /\ [](\A c \in Calls : DeterminedByOwnOutcomes(c))
    /\ [][/\ retryConfig' = retryConfig
           /\ apiKey' = apiKey
           /\ \E c \in Calls : \A d \in Calls \ {c} : LocalState(d)' = LocalState(d)]_vars

\* call a was retried twice and failed while call b, started in between, succeeded at once
C26_Witness_InterleavedCalls ==
    /\ pc["a"] = "done" /\ pc["b"] = "done"
    /\ Len(history["a"]) = 3 /\ backoffs["a"] = <<0, 1>>
    /\ ret["a"].err # Nil /\ ret["a"].err.Category = ErrCategoryRateLimit
    /\ Len(history["b"]) = 1 /\ backoffs["b"] = <<>>
    /\ ret["b"].resp # Nil /\ ret["b"].resp.RequestID = ""

(* C27: an attempt answered with a status other than 200 fails with an    *)
(* InferenceError and no response, 2xx codes other than 200 and 3xx codes  *)
(* included; a code below 400 is classified Unknown and the call returns   *)
(* that error without another attempt.                                     *)
C27_Non200IsFailure ==
    \A i \in 1 .. Len(history) :
        LET h == history[i]
        IN  (h.outcome.kind = "response" /\ h.outcome.status # 200) =>
              /\ h.result.resp = Nil
              /\ h.result.err # Nil
              /\ h.result.err.Category = mapStatusCodeToCategory(h.outcome.status)
              /\ h.result.err.Message.code = h.outcome.status
              /\ h.outcome.status < 400 =>
                    /\ h.result.err.Category = ErrCategoryUnknown
                    /\ ~IsRetryable(h.result.err)
                    /\ i = Len(history)
                    /\ pc = "done"
                    /\ ret = [resp |-> Nil, err |-> h.result.err]

\* with retries left, a 201 after a retried 429 ended the call with an Unknown error
C27_Witness_CreatedIsFailure ==
    /\ retryConfig.MaxRetries = 3
    /\ Len(history) = 2
    /\ history[1].outcome.status = 429
    /\ history[2].outcome.status = 201 /\ history[2].outcome.body = BodyJSON
    /\ pc = "done" /\ ret.resp = Nil
    /\ ret.err.Category = ErrCategoryUnknown

\* the retry fields are as the data model has them: InitialBackoff > 0,
\* MaxBackoff >= InitialBackoff, BackoffFactor >= 1, JitterFraction in [0, 1)
RetryConfigValid(cfg) ==
    /\ cfg.InitialBackoff > 0
    /\ cfg.MaxBackoff >= cfg.InitialBackoff
    /\ cfg.BackoffFactor.n >= cfg.BackoffFactor.d
    /\ cfg.JitterFraction.n >= 0
    /\ cfg.JitterFraction.n < cfg.JitterFraction.d

(* C28: when the jittered value is negative calculateBackoff returns       *)
(* InitialBackoff, and with InitialBackoff > 0 the wait it returns is      *)
(* never zero or negative.                                                 *)
C28_WaitIsPositive ==
    BackoffReturned =>
        /\ jitteredBackoff(fnCall.cfg, fnCall.attempt, fnCall.k).n < 0 =>
              fnResult.value = fnCall.cfg.InitialBackoff
        /\ RetryConfigValid(fnCall.cfg) => fnResult.value > 0

\* handleErrorResponse has returned
ErrorResponseHandled == fnCall.fn = "handleErrorResponse" /\ fnResult.returned

C30_SameRequestEveryAttempt ==
    /\ [](\A i, j \in 1 .. Len(history) :
            (history[i].result.sent # Nil /\ history[j].result.sent # Nil) =>
                history[i].result.sent = history[j].result.sent)
    /\ [][req' = req]_vars

\* three attempts of a completion request with an id and a key were sent
C30_Witness_ThreeAttemptsSent ==
    /\ pc = "done"
    /\ Len(history) = 3
    /\ \A i \in 1 .. 3 : history[i].result.sent # Nil
    /\ req.RequestID = "req-1"
    /\ req.Params = {"prompt"}
    /\ apiKey # ""
    /\ history[3].result.sent.path = "/v1/completions"
    /\ ret.err = Nil

(* C33: for every MaxRetries the constructor accepts, negative values      *)
(* included, a Generate call with a non-nil request makes at least one     *)
(* attempt and returns a response or an error.                             *)
C33_AtLeastOneAttemptAndResult ==
    (pc = "done" /\ req # Nil) =>
        /\ attemptCount >= 1
        /\ Len(history) >= 1
        /\ ret.resp # Nil \/ ret.err # Nil

(* C32: every Generate call eventually returns and stays returned,         *)
(* whatever the attempts meet, when every attempt terminates and every     *)
(* backoff wait ends by its timer or by the end of the context; with       *)
(* MaxRetries >= 0 the call has then either a response and no error        *)
(* (Success) or an error and no response (Failed).                         *)
C32_GenerateTerminates ==
    /\ <>[](pc = "done")
    /\ []((pc = "done" /\ retryConfig.MaxRetries >= 0) =>
            (ret.resp # Nil /\ ret.err = Nil) \/ (ret.resp = Nil /\ ret.err # Nil))

\* the loop ran as long as it can: every attempt failed retryably, every wait
\* ended by its timer, and the call returned the last error
C32_Witness_LongestLoopReturned ==
    /\ pc = "done"
    /\ retryConfig.MaxRetries >= 2
    /\ Len(history) = retryConfig.MaxRetries + 1
    /\ Len(backoffs) = retryConfig.MaxRetries
    /\ ctxErr = "nil"
    /\ ret.resp = Nil
    /\ ret.err = Last(history).result.err

\* the category of the error that the outcome of an attempt is classified as
\* when the context is live, by the table of mapStatusCodeToCategory
OutcomeCategory(o) ==
    IF o.kind = "doErr" THEN ErrCategoryServer ELSE mapStatusCodeToCategory(o.status)

\* the outcome is a failure that IsRetryable lets the loop retry
OutcomeRetryable(o) ==
    /\ ~(o.kind = "response" /\ o.status = 200)
    /\ IsRetryable(InferenceError(OutcomeCategory(o), Msg("outcome"), "err"))

\* a call with a request has returned, the context never ended, and every attempt
\* met a response or a transport failure
ReturnedWithoutCancellation ==
    /\ pc = "done"
    /\ req # Nil
    /\ ctxErr = "nil"
    /\ retryConfig.MaxRetries >= 0
    /\ \A i \in 1 .. Len(history) : history[i].outcome.kind \in {"response", "doErr"}

(* C31: for MaxRetries >= 0 and without cancellation, the number of        *)
(* attempts and the final outcome of a Generate call are the same function *)
(* of the sequence of attempt outcomes in the resty-backed and in the      *)
(* hand-rolled client: every attempt but the last met an outcome whose     *)
(* category is retryable, the last one met a success or a non-retryable    *)
(* failure or was attempt MaxRetries + 1, and the call returns success on  *)
(* a 200 and otherwise an error of the category of the last outcome; the   *)
(* resty retry condition holds of a status exactly if the category that    *)
(* mapStatusCodeToCategory gives it is retryable.                          *)
C31_VariantsAgree ==
    ReturnedWithoutCancellation =>
        LET k == Len(history)
            last == history[k].outcome
        IN  /\ k >= 1
            /\ k <= retryConfig.MaxRetries + 1
            /\ attemptCount = k
            /\ \A i \in 1 .. k - 1 : OutcomeRetryable(history[i].outcome)
            /\ k = retryConfig.MaxRetries + 1 \/ ~OutcomeRetryable(last)
            /\ \A code \in StatusCodes :
                  LET o == [kind |-> "response", status |-> code, body |-> BodyEmpty]
                  IN  restyRetryCondition(o) <=> OutcomeRetryable(o)
            /\ IF last.kind = "response" /\ last.status = 200
               THEN /\ ret.err = Nil
                    /\ ret.resp # Nil
                    /\ ret.resp.Response = last.body
               ELSE /\ ret.resp = Nil
                    /\ ret.err # Nil
                    /\ ret.err.Category = OutcomeCategory(last)

\* the resty-backed client retried a 429 and a 503 and stopped at a 404 with a retry left
C31_Witness_RestyStopsAtNotFound ==
    /\ variant = "resty"
    /\ ReturnedWithoutCancellation
    /\ retryConfig.MaxRetries = 3
    /\ Len(history) = 3
    /\ history[1].outcome.status = 429
    /\ history[2].outcome.status = 503
    /\ history[3].outcome.status = 404
    /\ ret.err # Nil
    /\ ret.err.Category = ErrCategoryUnknown

\* the Store calls of c that returned metadata
StoredBy(c) == stores[c].pc = "done" /\ stores[c].meta # Nil

(* C34: Store never overwrites an existing object: no step replaces an     *)
(* object that is in the bucket, and of the Store calls on one location at *)
(* most one returns metadata, the others return ErrFileExists.             *)
C34_StoreNeverOverwrites ==
    /\ [][\A k \in DOMAIN bucket : bucket[k] # Absent => bucket'[k] = bucket[k]]_vars
    /\ [](\A c, d \in StoreCallers :
            (c # d /\ stores[c].location = stores[d].location /\ StoredBy(c)
               /\ stores[d].pc = "done") =>
                stores[d].err = ErrFileExists)

\* call c went past the existence check and read its content without error
HasReadContent(c) ==
    \/ stores[c].pc \in {"put", "head2"}
    \/ stores[c].pc = "done" /\ stores[c].err \notin
          {ErrFileExists, StoreError("failed to check if object exists"), StoreError("failed to read content")}

\* the PutObject requests call c has issued
PutsOf(c) == {i \in 1 .. Len(puts) : puts[i].caller = c}

(* C35: a Store call whose content is longer than fileSizeLimit issues no  *)
(* PutObject and changes no object, and once it has read the content it    *)
(* returns ErrFileTooLarge; a call whose content has exactly fileSizeLimit *)
(* bytes is not rejected for its size, and what it uploads is the whole    *)
(* content. The bucket changes only by a PutObject.                        *)
C35_SizeLimit ==
    /\ [](\A c \in StoreCallers :
            LET st == stores[c]
            IN  /\ st.reader.len > st.fileSizeLimit =>
                      /\ PutsOf(c) = {}
                      /\ st.pc \notin {"put", "head2"}
                      /\ (st.pc = "done" /\ HasReadContent(c)) =>
                            (st.err = ErrFileTooLarge /\ st.meta = Nil)
                /\ st.reader.len = st.fileSizeLimit =>
                      /\ st.err # ErrFileTooLarge
                      /\ \A i \in PutsOf(c) : puts[i].body = st.reader
                      /\ StoredBy(c) => st.meta.Size = st.reader.len)
    /\ [][bucket' # bucket =>
            /\ Len(puts') = Len(puts) + 1
            /\ bucket' = [bucket EXCEPT ![puts'[Len(puts')].key] = puts'[Len(puts')].body]]_vars

\* a content one byte over the limit was refused while another call at the limit stored its own
C35_Witness_OverAndAtTheLimit ==
    /\ stores["a"].fileSizeLimit = 2
    /\ stores["a"].reader.len = 3
    /\ stores["a"].pc = "done"
    /\ stores["a"].err = ErrFileTooLarge
    /\ stores["b"].fileSizeLimit = 2
    /\ stores["b"].reader.len = 2
    /\ StoredBy("b")
    /\ bucket[StoreKey("b")] = [from |-> "b", len |-> 2]
    /\ Len(puts) = 1

====
